---- MODULE Spec2Model ----
(***************************************************************************)
(* Behavior tracker: the data-access / audit layer (scripts/data.js) and   *)
(* the auth / imitation context (scripts/auth.js).                         *)
(*                                                                         *)
(* The document store is Firestore, used through setDoc, updateDoc, addDoc *)
(* and getDoc.  A Day document is modelled field by field.  The store      *)
(* operations are atomic at the server; every await in the source is a     *)
(* point where another call may run.  A failed store operation has no      *)
(* effect on the store, so a retry-wrapped operation takes effect at one   *)
(* point (its successful attempt) or not at all.                           *)
(***************************************************************************)
EXTENDS Integers, Sequences, FiniteSets, TLC

(***************************************************************************)
(* Bounds of the model.                                                    *)
(***************************************************************************)
MaxCalls == 2          \* calls started in one behaviour of the data layer
MaxAuthSteps == 5      \* operations started in one behaviour of the auth context
MaxAttemptsArg == 4    \* largest maxAttempts handed to retryWithBackoff
MaxDepth == 2          \* nesting depth of the objects handed to sanitizeObject
MaxCoreOps == 4        \* operations started in one behaviour of data layer and auth context

(***************************************************************************)
(* Program constants.                                                      *)
(***************************************************************************)
MAX_RETRY_ATTEMPTS == 3
MAX_AUDIT_ENTRY_SIZE == 10000
MAX_DETAILS_SIZE == 5000

\* as ALLOWED_AUDIT_FIELDS, with asUserId let through
AllowedWithAsUserId ==
  {"action", "actorId", "actedBy", "targetId", "target",
   "details", "role", "asRole", "duration", "error", "asUserId"}

ALLOWED_AUDIT_FIELDS ==
  {"action", "actorId", "actedBy", "targetId", "target",
   "details", "role", "asRole", "duration", "error"}

DEFAULT_SCHOOL_ID == "school_001"

Procs == {"a", "b"}

(***************************************************************************)
(* JavaScript values.  A value is a record tagged with its type; v is the  *)
(* number, or 1/0 for true/false.                                          *)
(***************************************************************************)
Num(n) == [kind |-> "number", v |-> n]
Bool(b) == [kind |-> "boolean", v |-> IF b THEN 1 ELSE 0]
Str(n) == [kind |-> "string", v |-> n]
Undefined == [kind |-> "undefined", v |-> 0]

\* Number(value) for the values a cell can hold
Number(x) == x.v
\* value ? 1 : 0
Truthy(x) == x.kind # "undefined" /\ x.v # 0

Null == [kind |-> "null", v |-> 0]
\* value !== undefined && value !== null
Defined(x) == x.kind \notin {"undefined", "null"}

(***************************************************************************)
(* Inputs of the data layer.                                               *)
(***************************************************************************)
SchoolIds == {"s1", ""}              \* a valid school id and an empty one
PlanId == "plan1"
DayKey == "2026-01-05"
Periods == {"P1", "P2"}
Goals == {"G1"}
Cells == Periods \X Goals
CellArgs == {Num(2), Num(1), Str(7)}  \* Str: rejected by the value check
Texts == {Str(0), Str(5), Num(1)}     \* Num: rejected by the text check
CommentRoles == {"teacher", "art"}
IncIds == {1, 2}                     \* outcomes of Date.now() + Math.random()
Sources == {"teacher", "parent"}     \* "parent" is no legal source

\* the audit context a caller passes: null, without actedBy, or complete
NullCtx == [isNull |-> TRUE, actedBy |-> "", asRole |-> "", asUserId |-> ""]
CtxNoActor == [isNull |-> FALSE, actedBy |-> "", asRole |-> "teacher", asUserId |-> "u2"]
CtxOwn == [isNull |-> FALSE, actedBy |-> "u1", asRole |-> "teacher", asUserId |-> "u1"]
CtxImitating == [isNull |-> FALSE, actedBy |-> "adm", asRole |-> "teacher", asUserId |-> "u1"]
Ctxs == {NullCtx, CtxNoActor, CtxOwn, CtxImitating}

(***************************************************************************)
(* Outcomes of a store operation.  A script gives the outcome of each      *)
(* successive attempt of one operation.                                    *)
(***************************************************************************)
Scripts ==
  { <<"ok">>,
    <<"unavailable", "ok">>,
    <<"unavailable", "unavailable", "unavailable", "ok">>,
    <<"permission-denied">> }

RETRY_DELAY == 1000

\* the outcome of the attempt-th invocation of the operation
OutcomeAt(script, attempt) ==
  script[IF attempt <= Len(script) THEN attempt ELSE Len(script)]

\* the outcomes of the two addDoc calls of audit(), which are never retried
AuditScripts == { <<"ok">>, <<"unavailable", "ok">> }

\* as NonRetryable, but true of every error
NonRetryableAll(o) == TRUE

\* as NonRetryable, but without not-found
NonRetryableDeniedOnly(o) == o = "permission-denied"

\* err.code === 'permission-denied' || err.code === 'not-found'
NonRetryable(o) == o \in {"permission-denied", "not-found"}

\* as Backoff, but the same delay before every attempt
BackoffConstant(delay, attempt) == delay

\* setTimeout(resolve, delay * attempt)
Backoff(delay, attempt) == delay * attempt

\* data.js retryWithBackoff: the loop from `attempt` on; calls counts the
\* invocations of fn, delays lists the setTimeout waits
RECURSIVE retryFrom(_, _, _, _, _)
retryFrom(script, attempt, maxAttempts, delay, waited) ==
  LET o == OutcomeAt(script, attempt) IN
  IF o = "ok" THEN [result |-> "ok", calls |-> attempt, delays |-> waited]
  ELSE IF attempt = maxAttempts
    THEN [result |-> o, calls |-> attempt, delays |-> waited]
  ELSE IF NonRetryable(o)
    THEN [result |-> o, calls |-> attempt, delays |-> waited]
  ELSE retryFrom(script, attempt + 1, maxAttempts, delay,
                 Append(waited, Backoff(delay, attempt)))

retryWithBackoff(script) ==
  retryFrom(script, 1, MAX_RETRY_ATTEMPTS, RETRY_DELAY, <<>>).result

\* a store operation that is awaited without the retry wrapper
Unwrapped(script) == script[1]

\* data.js validateDocParams; NoDocId stands for the default docId = null
NoDocId == "<null>"
validateDocParams(schoolId, docId) ==
  schoolId # "" /\ (docId = NoDocId \/ docId # "")

(***************************************************************************)
(* JavaScript values of audit entries.  A value is a node: its type, a     *)
(* token for the content of a primitive, the length of its JSON text in    *)
(* UTF-16 code units (size: what JSON.stringify(x).length gives) and in    *)
(* UTF-8 bytes (bytes), its own enumerable members (m) and the enumerable  *)
(* keys it inherits from its prototype (inh).  An array is a node whose    *)
(* members are keyed "0", "1", ...                                         *)
(***************************************************************************)
EmptyObj == [k \in {} |-> 0]
Prim(kind, tok, size, bytes) ==
  [kind |-> kind, tok |-> tok, size |-> size, bytes |-> bytes, m |-> EmptyObj, inh |-> {}]

\* a string of ASCII characters whose JSON text is n characters long
SV(tok, n) == Prim("string", tok, n, n)
\* a string of n - 2 CJK characters: one code unit and three bytes each
SU(tok, n) == Prim("string", tok, n, 3 * (n - 2) + 2)
NV(n) == Prim("number", ToString(n), Len(ToString(n)), Len(ToString(n)))
BV(b) == Prim("boolean", IF b THEN "true" ELSE "false", IF b THEN 4 ELSE 5,
              IF b THEN 4 ELSE 5)
NullV == Prim("null", "null", 4, 4)
Id(tok) == SV(tok, 8)

\* the length of a key in a JSON text, without its quotes
KeyLen(k) == Len(k)

SizeOf(x, unit) == IF unit = "bytes" THEN x.bytes ELSE x.size

RECURSIVE SumSizes(_, _, _, _)
SumSizes(f, ks, unit, keyed) ==
  IF ks = {} THEN 0
  ELSE LET k == CHOOSE x \in ks : TRUE
       IN (IF keyed THEN KeyLen(k) + 3 ELSE 0) + SizeOf(f[k], unit)
            + SumSizes(f, ks \ {k}, unit, keyed)

\* the length of JSON.stringify of an object (keyed) or an array: brackets,
\* members ("key":value or value) and commas
JsonLength(f, unit, keyed) ==
  LET n == Cardinality(DOMAIN f)
  IN 2 + SumSizes(f, DOMAIN f, unit, keyed) + (IF n > 0 THEN n - 1 ELSE 0)

\* JSON.stringify(obj).length
JsonSize(f) == JsonLength(f, "chars", TRUE)
\* the number of bytes of the same text in UTF-8
JsonBytes(f) == JsonLength(f, "bytes", TRUE)

\* a plain object with the own members m
OBJ(m) ==
  [kind |-> "object", tok |-> "", size |-> JsonLength(m, "chars", TRUE),
   bytes |-> JsonLength(m, "bytes", TRUE), m |-> m, inh |-> {}]
\* an array with the elements m
ARR(m) ==
  [kind |-> "array", tok |-> "", size |-> JsonLength(m, "chars", FALSE),
   bytes |-> JsonLength(m, "bytes", FALSE), m |-> m, inh |-> {}]
\* x with a prototype that has the enumerable keys ks
WithProto(x, ks) == [x EXCEPT !.inh = ks]

\* an object whose JSON text is n characters long: {"blob":"..."}
OV(tok, n) == OBJ("blob" :> SV(tok, n - 9))

\* an audit entry as handed to audit(): null / undefined, or an object
NoEntry == [isObj |-> FALSE, f |-> EmptyObj]
Obj(f) == [isObj |-> TRUE, f |-> f]

Has(f, k) == k \in DOMAIN f
\* as Falsy, but true of a missing property only
FalsyMissingOnly(f, k) == ~Has(f, k)

\* !x for a property read
Falsy(f, k) ==
  \/ ~Has(f, k)
  \/ f[k].kind \in {"undefined", "null"}
  \/ (f[k].kind = "string" /\ f[k].size = 2)
  \/ (f[k].kind = "number" /\ f[k].tok = "0")
  \/ (f[k].kind = "boolean" /\ f[k].tok = "false")

\* typeof x === 'object' && x !== null
IsObject(x) == x.kind \in {"object", "array"}

\* the TypeError of calling a property that is no function
Thrown == Prim("TypeError", "hasOwnProperty is not a function", 0, 0)

\* obj.hasOwnProperty is the built-in unless obj has an own member of that name
OwnShadowed(m) == "hasOwnProperty" \in DOMAIN m

\* key === '__proto__' || key === 'constructor' || key === 'prototype'
SkippedKey(key) == key \in {"__proto__", "constructor", "prototype"}

(***************************************************************************)
(* data.js sanitizeObject.  for...in visits the own and the inherited      *)
(* enumerable keys, of an array its indices; the result is always a new    *)
(* plain object.  obj.hasOwnProperty(key) is called for every visited key  *)
(* that is not skipped.                                                    *)
(***************************************************************************)
RECURSIVE sanitizeObject(_)
sanitizeObject(obj) ==
  IF ~IsObject(obj) THEN obj
  ELSE
    LET visited == {key \in DOMAIN obj.m \cup obj.inh : ~SkippedKey(key)}
        kept == {key \in visited : key \in DOMAIN obj.m}
        copy == [key \in kept |->
                   IF IsObject(obj.m[key]) THEN sanitizeObject(obj.m[key])
                   ELSE obj.m[key]]
    IN IF visited # {} /\ OwnShadowed(obj.m) THEN Thrown
       ELSE IF \E key \in kept : copy[key] = Thrown THEN Thrown
       ELSE OBJ(copy)

\* { _truncated: true, _size: detailsSize, summary: 'Details truncated due to size limit' }
TruncatedDetails(detailsSize) ==
  OBJ(("_truncated" :> BV(TRUE)) @@ ("_size" :> NV(detailsSize))
        @@ ("summary" :> SV("Details truncated due to size limit", 37)))

Rejected(error) == [ok |-> FALSE, error |-> error, f |-> EmptyObj]

\* data.js validateAuditEntry: ok with the sanitized entry, or the error thrown
validateAuditEntry(entry) ==
  IF ~entry.isObj
    THEN Rejected("Audit entry must be an object")
  ELSE IF Falsy(entry.f, "action") \/ entry.f["action"].kind # "string"
    THEN Rejected("Audit entry must have an action field")
  ELSE IF Falsy(entry.f, "actorId") /\ Falsy(entry.f, "actedBy")
    THEN Rejected("Audit entry must have actorId or actedBy field")
  ELSE IF OwnShadowed(entry.f)
    THEN Rejected(Thrown.tok)
  ELSE
    LET white == [key \in (DOMAIN entry.f \cap ALLOWED_AUDIT_FIELDS) |-> entry.f[key]]
        clean == sanitizeObject(white["details"])
        sanitized ==
          IF Has(white, "details") /\ IsObject(white["details"])
            THEN [white EXCEPT !["details"] =
                    IF clean.size > MAX_DETAILS_SIZE THEN TruncatedDetails(clean.size)
                    ELSE clean]
            ELSE white
    IN IF Has(white, "details") /\ IsObject(white["details"]) /\ clean = Thrown
         THEN Rejected(Thrown.tok)
       ELSE IF JsonSize(sanitized) > MAX_AUDIT_ENTRY_SIZE
         THEN Rejected("Audit entry too large")
         ELSE [ok |-> TRUE, error |-> "", f |-> sanitized]

(***************************************************************************)
(* The plan and the Day document.                                          *)
(***************************************************************************)
\* a plan document: schedule and goals are arrays
PlanAMPM ==
  [exists |-> TRUE, planType |-> "PercentageAMPM",
   schedule |-> << [id |-> "P1", am |-> TRUE], [id |-> "P2", am |-> FALSE] >>,
   goals |-> << [id |-> "G1", kind |-> "stepper"] >>]
PlanPct ==
  [exists |-> TRUE, planType |-> "Percentage",
   schedule |-> << [id |-> "P1", am |-> TRUE], [id |-> "P2", am |-> FALSE] >>,
   goals |-> << [id |-> "G1", kind |-> "checkbox"] >>]
PlanMissing ==
  [exists |-> FALSE, planType |-> "", schedule |-> <<>>, goals |-> <<>>]
Plans == {PlanAMPM, PlanPct, PlanMissing}

\* plans with one morning period and one stepper goal
PlanOneAMPM ==
  [exists |-> TRUE, planType |-> "PercentageAMPM",
   schedule |-> << [id |-> "P1", am |-> TRUE] >>,
   goals |-> << [id |-> "G1", kind |-> "stepper"] >>]
PlanOnePct == [PlanOneAMPM EXCEPT !.planType = "Percentage"]

\* plan.planType?.includes('AMPM')
IncludesAMPM(planType) == planType \in {"PercentageAMPM", "PointsAMPM"}

EmptyMatrix == [c \in Cells |-> Undefined]
NoTotals == [present |-> FALSE, pct |-> 0, split |-> FALSE, amPct |-> 0, pmPct |-> 0]

(* A Day document.  matrix is the nested map field `matrix`; dotted holds   *)
(* the top-level fields whose NAME is the string "matrix.<period>.<goal>";  *)
(* comment holds the top-level fields named "comments.teacher" and          *)
(* "comments.specials.<role>".                                              *)
NoDay ==
  [exists |-> FALSE, matrix |-> EmptyMatrix, dotted |-> EmptyMatrix,
   totals |-> NoTotals, comment |-> [r \in CommentRoles |-> Undefined],
   incidents |-> <<>>, lastModified |-> 0]

\* a day as seedDemo leaves it: a matrix, and totals that are not derived from it
SeededDay ==
  [NoDay EXCEPT !.exists = TRUE,
                !.matrix = [c \in Cells |-> IF c[1] = "P2" THEN Num(1) ELSE Undefined],
                !.totals = [present |-> TRUE, pct |-> 70, split |-> TRUE,
                            amPct |-> 75, pmPct |-> 80]]
InitDays == {NoDay, SeededDay}

\* a day on which two incidents have been logged
LoggedDay ==
  [SeededDay EXCEPT !.incidents =
     << [id |-> 2, label |-> "Great Job!", note |-> FALSE, source |-> "specials"],
        [id |-> 1, label |-> "Great Job!", note |-> FALSE, source |-> "teacher"] >>]

\* a plan with eight of the periods and the three goals seedDemo writes
PlanWeek ==
  [exists |-> TRUE, planType |-> "PercentageAMPM",
   schedule |-> << [id |-> "M1", am |-> TRUE], [id |-> "M2", am |-> FALSE],
                   [id |-> "T1", am |-> TRUE], [id |-> "T2", am |-> FALSE],
                   [id |-> "W1", am |-> TRUE], [id |-> "W2", am |-> FALSE],
                   [id |-> "TH1", am |-> TRUE], [id |-> "TH2", am |-> FALSE] >>,
   goals |-> << [id |-> "goal_1", kind |-> "stepper"], [id |-> "goal_2", kind |-> "stepper"],
                [id |-> "goal_3", kind |-> "checkbox"] >>]

\* a plan with a morning and an afternoon period, a stepper goal, a checkbox
\* goal and a goal of a kind the Recalculator does not know
PlanMixed ==
  [exists |-> TRUE, planType |-> "PercentageAMPM",
   schedule |-> << [id |-> "P1", am |-> TRUE], [id |-> "P2", am |-> FALSE] >>,
   goals |-> << [id |-> "G1", kind |-> "stepper"], [id |-> "G2", kind |-> "checkbox"],
                [id |-> "G3", kind |-> "text"] >>]

\* a matrix as seedDemo fills it for PlanWeek: every cell graded, in the
\* order of the loops twos stepper cells hold 2, the next ones hold 1 and the
\* rest 0, and the checkbox of the first checked periods is true
WeekMatrix(twos, ones, checked) ==
  [c \in {<<PlanWeek.schedule[i].id, PlanWeek.goals[j].id>> :
            i \in 1..Len(PlanWeek.schedule), j \in 1..Len(PlanWeek.goals)} |->
     LET i == CHOOSE x \in 1..Len(PlanWeek.schedule) : PlanWeek.schedule[x].id = c[1]
         j == CHOOSE x \in 1..Len(PlanWeek.goals) : PlanWeek.goals[x].id = c[2]
         n == 2 * (i - 1) + j
     IN IF PlanWeek.goals[j].kind = "checkbox" THEN Bool(i <= checked)
        ELSE IF n <= twos THEN Num(2)
        ELSE IF n <= twos + ones THEN Num(1) ELSE Num(0)]

WeekDays ==
  { [SeededDay EXCEPT !.matrix = WeekMatrix(twos, ones, checked)] :
      twos \in {0, 3, 7, 10, 16}, ones \in {0, 1, 2}, checked \in {0, 1, 8} }

\* matrices for PlanMixed: cells that are missing, null, or hold a grade
MixedDays ==
  { [SeededDay EXCEPT !.matrix =
       [c \in {"P1", "P2"} \X {"G1", "G2", "G3"} |->
          IF c[2] = "G1" THEN (IF c[1] = "P1" THEN s1 ELSE s2)
          ELSE IF c[2] = "G2" THEN (IF c[1] = "P1" THEN b1 ELSE b2)
          ELSE Num(1)]] :
      s1 \in {Undefined, Null, Num(0), Num(2)}, s2 \in {Undefined, Num(1)},
      b1 \in {Undefined, Null, Bool(TRUE), Bool(FALSE)}, b2 \in {Undefined, Bool(TRUE)} }

\* the pairs (points, possible), possible up to 120, for which the double
\* (points / possible) * 100 lies below the half 100 * points / possible
\* stands on: (23 / 40) * 100 is 57.49999999999999
BelowHalf ==
  { <<23, 40>>, <<41, 40>>, <<51, 40>>, <<87, 40>>, <<97, 40>>,
    <<46, 80>>, <<82, 80>>, <<102, 80>>, <<174, 80>>, <<194, 80>>,
    <<69, 120>>, <<123, 120>>, <<153, 120>>, <<261, 120>>, <<291, 120>> }

\* as Pct, but dividing whatever possible is; -1 stands for Math.round(0 / 0)
PctUnguarded(points, possible) ==
  IF possible = 0 THEN -1 ELSE (200 * points + possible) \div (2 * possible)

\* as Pct, but rounding the exact quotient
PctExact(points, possible) ==
  IF possible > 0 THEN (200 * points + possible) \div (2 * possible) ELSE 0

\* possible > 0 ? Math.round((points / possible) * 100) : 0, in doubles
Pct(points, possible) ==
  IF possible > 0
    THEN IF <<points, possible>> \in BelowHalf
           THEN (200 * points + possible) \div (2 * possible) - 1
           ELSE (200 * points + possible) \div (2 * possible)
    ELSE 0

\* the contribution of one cell: points and possible
CellScore(goal, value) ==
  IF ~Defined(value) THEN [points |-> 0, possible |-> 0]
  ELSE IF goal.kind = "stepper" THEN [points |-> Number(value), possible |-> 2]
  ELSE IF goal.kind = "checkbox"
    THEN [points |-> IF Truthy(value) THEN 1 ELSE 0, possible |-> 1]
  ELSE [points |-> 0, possible |-> 0]

\* matrix[period.id]?.[goal.id]
CellOf(matrix, periodId, goalId) ==
  IF <<periodId, goalId>> \in DOMAIN matrix THEN matrix[<<periodId, goalId>>]
  ELSE Undefined

\* whether a cell of `period` counts for the accumulator pair `keep`
Routed(period, keep) ==
  keep = "total" \/ (keep = "am" /\ period.am) \/ (keep = "pm" /\ ~period.am)

\* the loops of recalculateDayTotals over periods i.. and goals j..
RECURSIVE Accumulate(_, _, _, _, _)
Accumulate(plan, matrix, i, j, keep) ==
  IF i > Len(plan.schedule) THEN [points |-> 0, possible |-> 0]
  ELSE IF j > Len(plan.goals) THEN Accumulate(plan, matrix, i + 1, 1, keep)
  ELSE LET period == plan.schedule[i]
           goal == plan.goals[j]
           c == IF Routed(period, keep)
                  THEN CellScore(goal, CellOf(matrix, period.id, goal.id))
                  ELSE [points |-> 0, possible |-> 0]
           rest == Accumulate(plan, matrix, i, j + 1, keep)
       IN [points |-> c.points + rest.points, possible |-> c.possible + rest.possible]


\* data.js recalculateDayTotals: the totals object it computes
DayTotals(plan, matrix) ==
  LET all == Accumulate(plan, matrix, 1, 1, "total")
      am == Accumulate(plan, matrix, 1, 1, "am")
      pm == Accumulate(plan, matrix, 1, 1, "pm")
  IN IF IncludesAMPM(plan.planType)
       THEN [present |-> TRUE, pct |-> Pct(all.points, all.possible), split |-> TRUE,
             amPct |-> Pct(am.points, am.possible), pmPct |-> Pct(pm.points, pm.possible)]
       ELSE [present |-> TRUE, pct |-> Pct(all.points, all.possible), split |-> FALSE,
             amPct |-> 0, pmPct |-> 0]

(***************************************************************************)
(* Store operations on the Day document.  setDoc(ref, data, {merge: true}) *)
(* takes every key of data as the NAME of a top-level field, dots          *)
(* included; only updateDoc reads a dotted key as a path into nested maps. *)
(***************************************************************************)
\* as SetMergeCell, but reading the key as a path into the map `matrix`, as
\* updateDoc does
UpdateCell(d, periodId, goalId, value, ts) ==
  [d EXCEPT !.exists = TRUE, !.matrix[<<periodId, goalId>>] = value,
            !.lastModified = ts]

\* setDoc(dayRef, {[`matrix.${periodId}.${goalId}`]: value, lastModified}, {merge: true})
SetMergeCell(d, periodId, goalId, value, ts) ==
  [d EXCEPT !.exists = TRUE, !.dotted[<<periodId, goalId>>] = value,
            !.lastModified = ts]

\* setDoc(dayRef, {'comments.teacher' | `comments.specials.${role}`: text, lastModified}, {merge: true})
SetMergeComment(d, role, text, ts) ==
  [d EXCEPT !.exists = TRUE, !.comment[role] = text, !.lastModified = ts]

\* as SetMergeIncidents, but with the new incident in front
SetPrependIncident(d, currentIncidents, incident, ts) ==
  [d EXCEPT !.exists = TRUE, !.incidents = <<incident>> \o currentIncidents,
            !.lastModified = ts]

\* as SetMergeIncidents, but appending to the stored array (an atomic arrayUnion)
SetAppendIncident(d, currentIncidents, incident, ts) ==
  [d EXCEPT !.exists = TRUE, !.incidents = Append(d.incidents, incident),
            !.lastModified = ts]

\* setDoc(dayRef, {incidents: [...currentIncidents, incident], lastModified}, {merge: true})
SetMergeIncidents(d, currentIncidents, incident, ts) ==
  [d EXCEPT !.exists = TRUE, !.incidents = Append(currentIncidents, incident),
            !.lastModified = ts]

\* as UpdateTotals, but merging the new keys into the stored totals map
UpdateTotalsMerged(d, totals) ==
  [d EXCEPT !.totals =
     IF totals.split \/ ~d.totals.present THEN totals
     ELSE [totals EXCEPT !.split = d.totals.split, !.amPct = d.totals.amPct,
                         !.pmPct = d.totals.pmPct]]

\* as UpdateTotals, but stamping the document at every write
UpdateTotalsStamped(d, totals) ==
  [d EXCEPT !.totals = totals, !.lastModified = @ + 1]

\* as UpdateTotals, but a setDoc without merge: the document becomes {totals}
SetTotals(d, totals) == [NoDay EXCEPT !.exists = TRUE, !.totals = totals]

\* updateDoc(dayRef, {totals}): the field is replaced as a whole
UpdateTotals(d, totals) == [d EXCEPT !.totals = totals]

(***************************************************************************)
(* State.                                                                  *)
(***************************************************************************)
VARIABLES
  plan,         \* schools/s1/plans/plan1
  day,          \* schools/s1/plans/plan1/days/<DayKey>
  school,       \* schools/s1: its theme and lastModified
  auditLogs,    \* schools/s1/audit_logs, in order of arrival
  auditErrors,  \* schools/s1/_audit_errors, in order of arrival
  proc,         \* per caller: the call in progress, its locals and its result
  lastAudit,    \* history: the latest invocation of audit() and what it attempted
  naudits,      \* history: number of invocations of audit()
  ncalls        \* history: number of calls started

dataVars == <<plan, day, school, auditLogs, auditErrors, proc, lastAudit, naudits,
              ncalls>>

\* the auth / imitation context (scripts/auth.js)
VARIABLES
  currentUser,     \* uid of the identity the provider last reported, NoUser if none
  currentClaims,   \* the cached claims of the token, NoClaims if null
  authReady,
  imitationState,  \* the session held in memory
  storage,         \* localStorage['imitation']
  pending,         \* users whose auth-state handler awaits getIdTokenResult()
  events,          \* history: the UI events dispatched on window
  ui,              \* per caller: the auth operation in progress and its result
  lastCtx,         \* history: what the latest getAuditContext() returned
  asteps           \* history: operations started; Date.now() is read off it

\* the page and the school context cache (scripts/auth.js)
VARIABLES
  appReady,        \* document.body has the attribute data-app-ready
  location,        \* window.location.href: the address and whether ?return= is appended
  schoolCtx,       \* _schoolCtx, the memoized school context
  lastSchool       \* history: what the latest getSchoolContext() returned

pageVars == <<appReady, location, schoolCtx, lastSchool>>

authVars == <<currentUser, currentClaims, authReady, imitationState, storage,
              pending, events, ui, lastCtx, asteps, pageVars>>

\* one invocation of retryWithBackoff, attempt by attempt
VARIABLES
  retry            \* its arguments, its loop variable and what it has done so far

\* applications of the pure functions of data.js
VARIABLES
  san,             \* sanitizeObject: its argument, its result, the result sanitized again
  val              \* validateAuditEntry: its argument and what it returned or threw

pureVars == <<san, val>>

otherVars == <<authVars, retry, pureVars>>

\* serverTimestamp(): the server's clock, which never runs backwards; it is
\* read off the number of calls started
serverTimestamp == ncalls

IdleRetry ==
  [pc |-> "idle", script |-> <<>>, maxAttempts |-> 0, delay |-> 0, attempt |-> 0,
   calls |-> 0, delays |-> <<>>, result |-> "none"]

NoIncident == [id |-> 0, label |-> "", note |-> FALSE, source |-> ""]
NoAudit ==
  [by |-> "", schoolId |-> "", entry |-> NoEntry, threw |-> FALSE, valid |-> FALSE,
   primary |-> "none", primaryTries |-> 0, fallback |-> "none", fallbackTries |-> 0]

\* what is remembered of a caller's previous call
NoPrev ==
  [wrote |-> FALSE, day |-> NoDay, logged |-> FALSE, incident |-> NoIncident,
   stored |-> <<>>]

IdleProc ==
  [pc |-> "idle", op |-> "none", schoolId |-> "", period |-> "", goal |-> "",
   value |-> Undefined, role |-> "", ctx |-> NullCtx, incident |-> NoIncident,
   current |-> <<>>, totals |-> NoTotals, res |-> "none", ret |-> NoDay,
   mutated |-> FALSE, recalc |-> "none", audited |-> FALSE, before |-> EmptyMatrix,
   overlapped |-> FALSE, prev |-> NoPrev]

\* a new call by p: the locals of the previous call are gone; overlapped
\* records that another caller's call was in progress when this one began,
\* prev the Day document as p's previous call left it when that call was a
\* recalculation that stored its totals, and the incident and the array it
\* had read when that call was a logCustomIncident that returned
Begin(p, op, schoolId, ctx) ==
  [IdleProc EXCEPT !.op = op, !.schoolId = schoolId, !.ctx = ctx,
                   !.overlapped = \E q \in Procs \ {p} : proc[q].pc # "idle",
                   !.prev = IF proc[p].pc = "idle" /\ proc[p].op = "recalculateDayTotals"
                                 /\ proc[p].recalc = "wrote"
                              THEN [NoPrev EXCEPT !.wrote = TRUE, !.day = day]
                              ELSE IF proc[p].pc = "idle" /\ proc[p].op = "logCustomIncident"
                                        /\ proc[p].res = "ok"
                                THEN [NoPrev EXCEPT !.logged = TRUE,
                                                    !.incident = proc[p].incident,
                                                    !.stored = proc[p].current]
                              ELSE NoPrev]

\* as RequireCtx, but without the actedBy test
RequireCtxLax(ctx) == ~ctx.isNull

\* if (!ctx || !ctx.actedBy) throw
RequireCtx(ctx) == ~ctx.isNull /\ ctx.actedBy # ""

\* {...ctx, action, target, details}: the entry a writer hands to audit()
CtxFields(ctx) ==
  [k \in {x \in {"actedBy", "asRole", "asUserId"} :
            (x = "actedBy" /\ ctx.actedBy # "") \/ (x = "asRole" /\ ctx.asRole # "")
              \/ (x = "asUserId" /\ ctx.asUserId # "")} |->
     IF k = "actedBy" THEN Id(ctx.actedBy)
     ELSE IF k = "asRole" THEN Id(ctx.asRole) ELSE Id(ctx.asUserId)]

WriterEntry(ctx, action, detailTok) ==
  Obj(CtxFields(ctx) @@ ("action" :> SV(action, 20)) @@ ("target" :> SV("plan1/day", 20))
        @@ ("details" :> OV(detailTok, 50)))

\* as audit, but an entry that fails validation is dropped without a fallback write
auditDropsInvalid(by, schoolId, entry, s1, s2, logs, errs, ts) ==
  LET v == validateAuditEntry(entry)
      o1 == IF v.ok THEN Unwrapped(s1) ELSE "invalid"
      o2 == Unwrapped(s2)
      base == [NoAudit EXCEPT !.by = by, !.schoolId = schoolId, !.entry = entry,
                              !.valid = v.ok, !.threw = ~validateDocParams(schoolId, NoDocId)]
  IN IF base.threw \/ ~v.ok THEN [logs |-> logs, errs |-> errs, rec |-> base]
     ELSE IF o1 = "ok"
       THEN [logs |-> Append(logs, [ts |-> ts, f |-> v.f]), errs |-> errs,
             rec |-> [base EXCEPT !.primary = "ok", !.primaryTries = 1]]
     ELSE [logs |-> logs,
           errs |-> IF o2 = "ok"
                      THEN Append(errs, [ts |-> ts, error |-> o1, originalEntry |-> entry])
                      ELSE errs,
           rec |-> [base EXCEPT !.primary = "fail", !.primaryTries = 1,
                                !.fallback = IF o2 = "ok" THEN "ok" ELSE "fail",
                                !.fallbackTries = 1]]

(***************************************************************************)
(* data.js audit(schoolId, entry): what one invocation does, given the     *)
(* outcome scripts of the write to audit_logs (s1) and of the fallback     *)
(* write to _audit_errors (s2).  Neither addDoc is retried.                *)
(***************************************************************************)
audit(by, schoolId, entry, s1, s2, logs, errs, ts) ==
  IF ~validateDocParams(schoolId, NoDocId)
    THEN [logs |-> logs, errs |-> errs,
          rec |-> [NoAudit EXCEPT !.by = by, !.schoolId = schoolId, !.entry = entry,
                                  !.threw = TRUE]]
  ELSE
    LET v == validateAuditEntry(entry)
        o1 == IF v.ok THEN Unwrapped(s1) ELSE "invalid"
        o2 == Unwrapped(s2)
        base == [NoAudit EXCEPT !.by = by, !.schoolId = schoolId, !.entry = entry,
                                !.valid = v.ok]
    IN IF o1 = "ok"
         THEN [logs |-> Append(logs, [ts |-> ts, f |-> v.f]), errs |-> errs,
               rec |-> [base EXCEPT !.primary = "ok", !.primaryTries = 1]]
         ELSE [logs |-> logs,
               errs |-> IF o2 = "ok"
                          THEN Append(errs, [ts |-> ts,
                                             error |-> IF v.ok THEN o1 ELSE v.error,
                                             originalEntry |-> entry])
                          ELSE errs,
               rec |-> [base EXCEPT !.primary = IF v.ok THEN "fail" ELSE "none",
                                    !.primaryTries = IF v.ok THEN 1 ELSE 0,
                                    !.fallback = IF o2 = "ok" THEN "ok" ELSE "fail",
                                    !.fallbackTries = 1]]

\* the audit step that ends a writer's call
AuditStep(p, E, entry) ==
  \E s1 \in E.auditScripts, s2 \in E.auditScripts :
    LET a == audit(p, proc[p].schoolId, entry, s1, s2, auditLogs, auditErrors, serverTimestamp)
    IN /\ auditLogs' = a.logs
       /\ auditErrors' = a.errs
       /\ lastAudit' = a.rec
       /\ naudits' = naudits + 1
       /\ proc' = [proc EXCEPT ![p].pc = "idle", ![p].audited = TRUE,
                               ![p].res = IF a.rec.threw THEN "err" ELSE "ok"]

\* the call throws: what is kept of it is its name, its ctx and its failure
Fail(p, call) ==
  proc' = [proc EXCEPT ![p] = [IdleProc EXCEPT !.op = call.op, !.ctx = call.ctx,
                                               !.res = "err"]]

PeriodArgs == Periods \cup {""}
Labels == {"Great Job!", ""}          \* "": a button without a label
Themes == {"dark", ""}                \* "": no theme object
DayKeyArgs == {DayKey, "05/01/2026"}  \* the second fails the YYYY-MM-DD test

\* direct callers of the exported audit()
AuditInputs ==
  { NoEntry,
    Obj(("action" :> SV("export", 8)) @@ ("actorId" :> Id("u1"))
          @@ ("secret" :> SV("x", 9))),
    Obj(("actedBy" :> Id("u1")) @@ ("details" :> OV("d", 50))),
    Obj(("action" :> SV("export", 8)) @@ ("target" :> SV("t", 9))),
    Obj(("action" :> SV("export", 8)) @@ ("actedBy" :> Id("u1"))
          @@ ("details" :> OV("big", 5001))),
    Obj(("action" :> SV("export", 8)) @@ ("actedBy" :> Id("u1"))
          @@ ("target" :> SV("huge", 10001))) }

CanStart(p) == proc[p].pc = "idle" /\ ncalls < MaxCalls

(***************************************************************************)
(* data.js saveMatrixCell                                                  *)
(***************************************************************************)
saveMatrixCell(p, E) ==
  /\ CanStart(p)
  /\ \E schoolId \in E.schoolIds, periodId \in E.periods, goalId \in Goals,
        value \in E.values, ctx \in E.ctxs, s \in E.scripts :
       LET call == [Begin(p, "saveMatrixCell", schoolId, ctx) EXCEPT
                      !.period = periodId, !.goal = goalId, !.value = value,
                      !.before = day.matrix]
       IN /\ ncalls' = ncalls + 1
          /\ IF ~validateDocParams(schoolId, PlanId) \/ periodId = "" \/ goalId = ""
                \/ value.kind \notin {"number", "boolean"} \/ ~RequireCtx(ctx)
               THEN Fail(p, call) /\ UNCHANGED day
             ELSE IF retryWithBackoff(s) = "ok"
               THEN /\ day' = SetMergeCell(day, periodId, goalId, value, serverTimestamp)
                                 /\ proc' = [proc EXCEPT ![p] = [call EXCEPT !.pc = "smc_recalc",
                                                                 !.mutated = TRUE]]
             ELSE Fail(p, call) /\ UNCHANGED day
  /\ UNCHANGED <<plan, school, auditLogs, auditErrors, lastAudit, naudits>>
  /\ UNCHANGED otherVars

(* recalculateDayTotals, first half: the two getDoc reads (neither is       *)
(* retried) and the computation.  The plan never changes, so reading it at  *)
(* the moment the day is read loses no interleaving.                        *)
recalcRead(p, E) ==
  /\ proc[p].pc = "smc_recalc"
  /\ \E sp \in E.scripts, sd \in E.scripts :
       IF Unwrapped(sp) # "ok" \/ Unwrapped(sd) # "ok"
         THEN proc' = [proc EXCEPT ![p].pc = "smc_audit", ![p].recalc = "failed"]
       ELSE IF ~plan.exists \/ ~day.exists
         THEN proc' = [proc EXCEPT ![p].pc = "smc_audit", ![p].recalc = "skipped"]
       ELSE proc' = [proc EXCEPT ![p].pc = "smc_totals",
                                 ![p].totals = DayTotals(plan, day.matrix)]
  /\ UNCHANGED <<plan, day, school, auditLogs, auditErrors, lastAudit, naudits,
                 ncalls>>
  /\ UNCHANGED otherVars

\* as recalcWrite, but without the catch: a failed updateDoc ends the call
recalcWriteRaises(p, E) ==
  /\ proc[p].pc = "smc_totals"
  /\ \E s \in E.scripts :
       IF Unwrapped(s) = "ok" /\ day.exists
         THEN /\ day' = UpdateTotals(day, proc[p].totals)
              /\ proc' = [proc EXCEPT ![p].pc = "smc_audit", ![p].recalc = "wrote"]
         ELSE /\ day' = day
              /\ Fail(p, proc[p])
  /\ UNCHANGED <<plan, school, auditLogs, auditErrors, lastAudit, naudits, ncalls>>
  /\ UNCHANGED otherVars

\* recalculateDayTotals, second half: updateDoc(dayRef, {totals}), not retried
recalcWrite(p, E) ==
  /\ proc[p].pc = "smc_totals"
  /\ \E s \in E.scripts :
       IF Unwrapped(s) = "ok" /\ day.exists
         THEN /\ day' = UpdateTotals(day, proc[p].totals)
              /\ proc' = [proc EXCEPT ![p].pc = "smc_audit", ![p].recalc = "wrote"]
         ELSE /\ day' = day
              /\ proc' = [proc EXCEPT ![p].pc = "smc_audit", ![p].recalc = "failed"]
  /\ UNCHANGED <<plan, school, auditLogs, auditErrors, lastAudit, naudits, ncalls>>
  /\ UNCHANGED otherVars

\* as smcAudit, but not awaiting the Recalculator
smcAuditEarly(p, E) ==
  /\ proc[p].pc \in {"smc_recalc", "smc_totals", "smc_audit"}
  /\ AuditStep(p, E, WriterEntry(proc[p].ctx, "matrix_cell_update", "cell"))
  /\ UNCHANGED <<plan, day, school, ncalls>>
  /\ UNCHANGED otherVars

\* saveMatrixCell: await audit(...), then return
smcAudit(p, E) ==
  /\ proc[p].pc = "smc_audit"
  /\ AuditStep(p, E, WriterEntry(proc[p].ctx, "matrix_cell_update", "cell"))
  /\ UNCHANGED <<plan, day, school, ncalls>>
  /\ UNCHANGED otherVars

(***************************************************************************)
(* data.js saveComment                                                     *)
(***************************************************************************)
saveComment(p, E) ==
  /\ CanStart(p)
  /\ \E schoolId \in E.schoolIds, role \in E.roles, text \in E.texts,
        ctx \in E.ctxs, s \in E.scripts :
       LET call == [Begin(p, "saveComment", schoolId, ctx) EXCEPT
                      !.role = role, !.value = text]
       IN /\ ncalls' = ncalls + 1
          /\ IF ~validateDocParams(schoolId, PlanId) \/ role = ""
                \/ text.kind # "string" \/ ~RequireCtx(ctx)
               THEN Fail(p, call) /\ UNCHANGED day
             ELSE IF retryWithBackoff(s) = "ok"
               THEN /\ day' = SetMergeComment(day, role, text, serverTimestamp)
                                 /\ proc' = [proc EXCEPT ![p] = [call EXCEPT !.pc = "sc_audit",
                                                                 !.mutated = TRUE]]
             ELSE Fail(p, call) /\ UNCHANGED day
  /\ UNCHANGED <<plan, school, auditLogs, auditErrors, lastAudit, naudits>>
  /\ UNCHANGED otherVars

scAudit(p, E) ==
  /\ proc[p].pc = "sc_audit"
  /\ AuditStep(p, E, WriterEntry(proc[p].ctx, "comment_save", "comment"))
  /\ UNCHANGED <<plan, day, school, ncalls>>
  /\ UNCHANGED otherVars

(***************************************************************************)
(* data.js logCustomIncident                                               *)
(***************************************************************************)
\* validation, the incident, and `await getDoc(dayRef)` (not retried)
logCustomIncident(p, E) ==
  /\ CanStart(p)
  /\ \E schoolId \in E.schoolIds, label \in E.labels, source \in E.sources, ctx \in E.ctxs,
        id \in IncIds, s \in E.scripts :
       LET incident == [id |-> id, label |-> label, note |-> FALSE, source |-> source]
           call == [Begin(p, "logCustomIncident", schoolId, ctx) EXCEPT
                      !.role = source, !.incident = incident]
       IN /\ ncalls' = ncalls + 1
          /\ IF ~validateDocParams(schoolId, PlanId) \/ label = ""
                \/ source \notin {"teacher", "specials"} \/ ~RequireCtx(ctx)
               THEN Fail(p, call)
             ELSE IF Unwrapped(s) = "ok"
               THEN proc' = [proc EXCEPT ![p] =
                      [call EXCEPT !.pc = "lci_write",
                                   !.current = IF day.exists THEN day.incidents
                                               ELSE <<>>]]
             ELSE Fail(p, call)
  /\ UNCHANGED <<plan, day, school, auditLogs, auditErrors, lastAudit, naudits>>
  /\ UNCHANGED otherVars

\* as lciWrite, but going on to the audit call when the setDoc has failed
lciWriteGoesOn(p, E) ==
  /\ proc[p].pc = "lci_write"
  /\ \E s \in E.scripts :
       IF retryWithBackoff(s) = "ok"
         THEN /\ day' = SetMergeIncidents(day, proc[p].current, proc[p].incident, serverTimestamp)
              /\ proc' = [proc EXCEPT ![p].pc = "lci_audit", ![p].mutated = TRUE]
         ELSE /\ UNCHANGED day
              /\ proc' = [proc EXCEPT ![p].pc = "lci_audit"]
  /\ UNCHANGED <<plan, school, auditLogs, auditErrors, lastAudit, naudits, ncalls>>
  /\ UNCHANGED otherVars

\* retryWithBackoff(() => setDoc(dayRef, {incidents: [...currentIncidents, incident], ...}))
lciWrite(p, E) ==
  /\ proc[p].pc = "lci_write"
  /\ \E s \in E.scripts :
       IF retryWithBackoff(s) = "ok"
         THEN /\ day' = SetMergeIncidents(day, proc[p].current, proc[p].incident, serverTimestamp)
                     /\ proc' = [proc EXCEPT ![p].pc = "lci_audit", ![p].mutated = TRUE]
         ELSE /\ UNCHANGED day
              /\ Fail(p, proc[p])
  /\ UNCHANGED <<plan, school, auditLogs, auditErrors, lastAudit, naudits, ncalls>>
  /\ UNCHANGED otherVars

lciAudit(p, E) ==
  /\ proc[p].pc = "lci_audit"
  /\ AuditStep(p, E, WriterEntry(proc[p].ctx, "incident_log", "incident"))
  /\ UNCHANGED <<plan, day, school, ncalls>>
  /\ UNCHANGED otherVars

(***************************************************************************)
(* data.js setTheme: no ctx parameter and no call of audit()               *)
(***************************************************************************)
setTheme(p, E) ==
  /\ CanStart(p)
  /\ \E schoolId \in E.schoolIds, theme \in E.themes, s \in E.scripts :
       LET call == [Begin(p, "setTheme", schoolId, NullCtx) EXCEPT !.role = theme]
       IN /\ ncalls' = ncalls + 1
          /\ IF ~validateDocParams(schoolId, NoDocId) \/ theme = ""
               THEN Fail(p, call) /\ UNCHANGED school
             ELSE IF retryWithBackoff(s) = "ok"
               THEN /\ school' = [theme |-> theme, lastModified |-> serverTimestamp]
                                 /\ proc' = [proc EXCEPT ![p] = [call EXCEPT !.res = "ok",
                                                                 !.mutated = TRUE]]
             ELSE Fail(p, call) /\ UNCHANGED school
  /\ UNCHANGED <<plan, day, auditLogs, auditErrors, lastAudit, naudits>>
  /\ UNCHANGED otherVars

(***************************************************************************)
(* data.js loadDay: ret is dayDoc.data(), or null (NoDay) when absent      *)
(***************************************************************************)
loadDay(p, E) ==
  /\ CanStart(p)
  /\ \E schoolId \in E.schoolIds, dayKey \in E.dayKeys, s \in E.scripts :
       LET call == Begin(p, "loadDay", schoolId, NullCtx)
       IN /\ ncalls' = ncalls + 1
          /\ IF ~validateDocParams(schoolId, PlanId) \/ dayKey # DayKey
               THEN Fail(p, call)
             ELSE IF retryWithBackoff(s) = "ok"
               THEN proc' = [proc EXCEPT ![p] =
                      [call EXCEPT !.res = "ok",
                                   !.ret = IF day.exists THEN day ELSE NoDay]]
             ELSE Fail(p, call)
  /\ UNCHANGED <<plan, day, school, auditLogs, auditErrors, lastAudit, naudits>>
  /\ UNCHANGED otherVars

(***************************************************************************)
(* data.js loadSpecialsDay: the students whose active plan has the day     *)
(* code in its schedule.  The students are read through the retry wrapper, *)
(* the plan of each student is not, and a plan that cannot be read is      *)
(* skipped.                                                                *)
(***************************************************************************)
\* schools/s1/students: one student with the plan, one without a plan
Students == << [id |-> "st1", activePlanId |-> PlanId], [id |-> "st2", activePlanId |-> ""] >>
DayCodes == {"P1", "Z"}           \* "Z" is in no schedule

\* plan.schedule?.some(period => period.label === dayCode || period.id === dayCode)
HasDayCode(pl, dayCode) == \E i \in 1..Len(pl.schedule) : pl.schedule[i].id = dayCode

loadSpecialsDay(p, E) ==
  /\ CanStart(p)
  /\ \E schoolId \in E.schoolIds, dayCode \in DayCodes, s \in E.scripts, sp \in E.scripts :
       LET call == [Begin(p, "loadSpecialsDay", schoolId, NullCtx) EXCEPT !.role = dayCode]
           found == SelectSeq(Students,
                              LAMBDA st : /\ st.activePlanId # ""
                                          /\ Unwrapped(sp) = "ok"
                                          /\ plan.exists
                                          /\ HasDayCode(plan, dayCode))
       IN /\ ncalls' = ncalls + 1
          /\ IF ~validateDocParams(schoolId, NoDocId) \/ dayCode = ""
               THEN Fail(p, call)
             ELSE IF retryWithBackoff(s) = "ok"
               THEN proc' = [proc EXCEPT ![p] =
                      [call EXCEPT !.res = "ok",
                                   !.current = [i \in 1..Len(found) |-> found[i].id]]]
             ELSE Fail(p, call)
  /\ UNCHANGED <<plan, day, school, auditLogs, auditErrors, lastAudit, naudits>>
  /\ UNCHANGED otherVars

\* a direct call of the exported audit(schoolId, entry)
auditCall(p, E) ==
  /\ CanStart(p)
  /\ \E schoolId \in E.schoolIds, entry \in E.entries, s1 \in E.auditScripts,
        s2 \in E.auditScripts :
       LET call == Begin(p, "audit", schoolId, NullCtx)
           a == audit(p, schoolId, entry, s1, s2, auditLogs, auditErrors, serverTimestamp)
       IN /\ ncalls' = ncalls + 1
          /\ auditLogs' = a.logs
          /\ auditErrors' = a.errs
          /\ lastAudit' = a.rec
          /\ naudits' = naudits + 1
             /\ proc' = [proc EXCEPT ![p] =
                        [call EXCEPT !.audited = TRUE,
                                     !.res = IF a.rec.threw THEN "err" ELSE "ok"]]
  /\ UNCHANGED <<plan, day, school>>
  /\ UNCHANGED otherVars



(***************************************************************************)
(* data.js recalculateDayTotals invoked on its own.  It never throws.      *)
(***************************************************************************)
\* the two getDoc reads and the computation
recalculateDayTotals(p, E) ==
  /\ CanStart(p)
  /\ ncalls' = ncalls + 1
  /\ \E sp \in E.scripts, sd \in E.scripts :
       LET call == [Begin(p, "recalculateDayTotals", "s1", NullCtx) EXCEPT !.res = "ok"]
       IN IF Unwrapped(sp) # "ok" \/ Unwrapped(sd) # "ok"
            THEN proc' = [proc EXCEPT ![p] = [call EXCEPT !.recalc = "failed"]]
          ELSE IF ~plan.exists \/ ~day.exists
            THEN proc' = [proc EXCEPT ![p] = [call EXCEPT !.recalc = "skipped"]]
          ELSE proc' = [proc EXCEPT ![p] =
                 [call EXCEPT !.pc = "rc_totals", !.res = "none",
                              !.totals = DayTotals(plan, day.matrix)]]
  /\ UNCHANGED <<plan, day, school, auditLogs, auditErrors, lastAudit, naudits>>
  /\ UNCHANGED otherVars

\* updateDoc(dayRef, {totals}), not retried, and the return
recalcStore(p, E) ==
  /\ proc[p].pc = "rc_totals"
  /\ \E s \in E.scripts :
       IF Unwrapped(s) = "ok" /\ day.exists
         THEN /\ day' = UpdateTotals(day, proc[p].totals)
              /\ proc' = [proc EXCEPT ![p].pc = "idle", ![p].res = "ok",
                                      ![p].recalc = "wrote"]
         ELSE /\ day' = day
              /\ proc' = [proc EXCEPT ![p].pc = "idle", ![p].res = "ok",
                                      ![p].recalc = "failed"]
  /\ UNCHANGED <<plan, school, auditLogs, auditErrors, lastAudit, naudits, ncalls>>
  /\ UNCHANGED otherVars

(***************************************************************************)
(* data.js retryWithBackoff, one step per invocation of fn and per wait.   *)
(***************************************************************************)
RetryOutcomes == {"ok", "unavailable", "permission-denied", "not-found"}
\* what the operation does at its 1st, 2nd, ... invocation
RetryScripts == [1..MaxAttemptsArg -> RetryOutcomes]
RetryDelays == {RETRY_DELAY, 250}

\* retryWithBackoff(fn, maxAttempts, delay) is called: attempt = 1
retryCall ==
  /\ retry.pc = "idle"
  /\ \E script \in RetryScripts, maxAttempts \in 1..MaxAttemptsArg, delay \in RetryDelays :
       retry' = [IdleRetry EXCEPT !.pc = "call", !.script = script,
                                  !.maxAttempts = maxAttempts, !.delay = delay,
                                  !.attempt = 1]
  /\ UNCHANGED <<dataVars, authVars, pureVars>>

\* return await fn(), and the catch up to the setTimeout
retryAttempt ==
  /\ retry.pc = "call"
  /\ LET o == OutcomeAt(retry.script, retry.attempt)
         tried == [retry EXCEPT !.calls = @ + 1]
     IN retry' = IF o = "ok" THEN [tried EXCEPT !.pc = "done", !.result = "ok"]
                 ELSE IF retry.attempt = retry.maxAttempts
                   THEN [tried EXCEPT !.pc = "done", !.result = o]
                 ELSE IF NonRetryable(o)
                   THEN [tried EXCEPT !.pc = "done", !.result = o]
                 ELSE [tried EXCEPT !.pc = "wait"]
  /\ UNCHANGED <<dataVars, authVars, pureVars>>

\* the timer fires and the loop goes to the next attempt
retryWait ==
  /\ retry.pc = "wait"
  /\ retry' = [retry EXCEPT !.pc = "call",
                            !.delays = Append(@, Backoff(retry.delay, retry.attempt)),
                            !.attempt = @ + 1]
  /\ UNCHANGED <<dataVars, authVars, pureVars>>

(***************************************************************************)
(* Applications of sanitizeObject and validateAuditEntry to arguments      *)
(* drawn at the start.                                                     *)
(***************************************************************************)
Leaves == {NV(1), NullV}

\* the objects and one-element arrays nested at most d deep
RECURSIVE Trees(_)
Trees(d) ==
  IF d = 0 THEN Leaves
  ELSE LET sub == Trees(d - 1)
       IN Leaves \cup {OBJ(m) : m \in UNION {[K -> sub] : K \in SUBSET {"a", "__proto__"}}}
                 \cup {ARR("0" :> x) : x \in sub}

\* JSON.parse('{"__proto__": {"polluted": true}, "a": 1}'): __proto__ is an own key
PollutedParsed == OBJ(("__proto__" :> OBJ("polluted" :> BV(TRUE))) @@ ("a" :> NV(1)))
\* the literal {"__proto__": {polluted: true}, "a": 1}: polluted is inherited
PollutedLiteral == WithProto(OBJ("a" :> NV(1)), {"polluted"})

SanitizeInputs ==
  Trees(MaxDepth) \cup
  { PollutedParsed, PollutedLiteral,
    SV("text", 6),
    OBJ(("a" :> OBJ(("constructor" :> NV(1)) @@ ("b" :> SV("x", 3))))
          @@ ("prototype" :> NullV)),
    OBJ(("a" :> OBJ("b" :> OBJ(("prototype" :> OBJ("c" :> NV(1))) @@ ("d" :> BV(FALSE)))))),
    OBJ("a" :> ARR(("0" :> NV(1)) @@ ("1" :> NV(2)))),
    ARR(("0" :> OBJ("constructor" :> NV(1))) @@ ("1" :> NV(2))),
    OBJ(("hasOwnProperty" :> NV(1)) @@ ("a" :> NV(1))),
    OBJ("a" :> OBJ("hasOwnProperty" :> BV(TRUE))) }

\* sanitizeObject(obj)
sanitizeApply ==
  /\ san.pc = "new"
  /\ san' = [san EXCEPT !.pc = "once", !.once = sanitizeObject(san.input)]
  /\ UNCHANGED <<dataVars, authVars, retry, val>>

\* sanitizeObject(sanitizeObject(obj)), when the first application returned
sanitizeAgain ==
  /\ san.pc = "once"
  /\ san.once # Thrown
  /\ san' = [san EXCEPT !.pc = "twice", !.twice = sanitizeObject(san.once)]
  /\ UNCHANGED <<dataVars, authVars, retry, val>>

\* the values an entry may hold under each key
EntryKeys == {"action", "actorId", "actedBy", "details", "target", "asUserId"}
EntryValues(key) ==
  CASE key = "action" -> {SV("", 2), SV("export", 8), NV(5)}
    [] key = "actorId" -> {Id("u1")}
    [] key = "actedBy" -> {SV("", 2), Id("u1")}
    [] key = "details" ->
         { OV("d", 50), OV("exact", 5000), OV("big", 5001),
           OBJ(("blob" :> SV("x", 4990)) @@ ("__proto__" :> OBJ("blob" :> SV("y", 100)))),
           OBJ("note" :> SU("kanji", 2002)),
           ARR(("0" :> NV(1)) @@ ("1" :> NV(2))),
           OBJ("hasOwnProperty" :> NV(1)),
           NullV, SV("text", 6000) }
    [] key = "target" -> {SV("t", 9), SV("huge", 10001), SU("kanji", 6000)}
    [] OTHER -> {Id("u2")}

\* every object with keys among ks and values among EntryValues
RECURSIVE Entries(_)
Entries(ks) ==
  IF ks = {} THEN {EmptyObj}
  ELSE LET key == CHOOSE x \in ks : TRUE
           rest == Entries(ks \ {key})
       IN rest \cup {(key :> v) @@ f : v \in EntryValues(key), f \in rest}

ValidateInputs ==
  {NoEntry} \cup {Obj(f) : f \in Entries(EntryKeys)}
    \cup {Obj(("action" :> SV("export", 8)) @@ ("actedBy" :> Id("u1"))
                @@ ("hasOwnProperty" :> NV(1)))}

\* validateAuditEntry(entry)
validateApply ==
  /\ val.pc = "new"
  /\ val' = [val EXCEPT !.pc = "done", !.res = validateAuditEntry(val.entry)]
  /\ UNCHANGED <<dataVars, authVars, retry, san>>

(***************************************************************************)
(* Specifications.  An environment names the callers and the arguments     *)
(* they pass.                                                              *)
(***************************************************************************)
\* one caller, one call after the other, every kind of argument
SeqEnv ==
  [schoolIds |-> SchoolIds, periods |-> PeriodArgs, values |-> CellArgs,
   ctxs |-> Ctxs, scripts |-> Scripts, auditScripts |-> AuditScripts, texts |-> Texts,
   roles |-> CommentRoles \cup {""}, labels |-> Labels, sources |-> Sources,
   themes |-> Themes, dayKeys |-> DayKeyArgs, entries |-> AuditInputs]

\* one caller of all the writers: one argument of each kind per parameter
WriterEnv ==
  [SeqEnv EXCEPT !.periods = {"P1", ""}, !.values = {Num(2), Str(7)},
                 !.ctxs = {NullCtx, CtxNoActor, CtxImitating},
                 !.texts = {Str(5), Num(1)}, !.roles = {"teacher", ""}]

\* two callers whose calls overlap; arguments that pass validation
RaceEnv ==
  [schoolIds |-> {"s1"}, periods |-> Periods, values |-> {Num(2), Num(1)},
   ctxs |-> {CtxOwn}, scripts |-> {<<"ok">>, <<"permission-denied">>},
   auditScripts |-> {<<"ok">>},
   texts |-> {Str(5)}, roles |-> {"teacher"}, labels |-> {"Great Job!"},
   sources |-> {"teacher"}, themes |-> {"dark"}, dayKeys |-> {DayKey},
   entries |-> {}]

StoreInit(plans, days) ==
  /\ plan \in plans
  /\ day \in days
  /\ school = [theme |-> "light", lastModified |-> 0]
  /\ auditLogs = <<>>
  /\ auditErrors = <<>>
  /\ proc = [p \in Procs |-> IdleProc]
  /\ lastAudit = NoAudit
  /\ naudits = 0
  /\ ncalls = 0
  /\ retry = IdleRetry

IdleSan == [pc |-> "new", input |-> NullV, once |-> NullV, twice |-> NullV]
IdleVal == [pc |-> "new", entry |-> NoEntry, res |-> Rejected("")]

DataInit(plans, days) ==
  /\ StoreInit(plans, days)
  /\ san = IdleSan
  /\ val = IdleVal

(***************************************************************************)
(* The auth / imitation context (scripts/auth.js).                         *)
(***************************************************************************)
NoUser == ""
Users == {"adm", "u1"}
\* isArray: roles is an array; the user "odd" has the string 'teacher' there
NoClaims == [isNull |-> TRUE, roles |-> <<>>, schoolId |-> "", isArray |-> TRUE]
\* the custom claims the identity provider holds for a user
ClaimsOf(u) ==
  IF u = "adm"
    THEN [isNull |-> FALSE, roles |-> <<"admin", "teacher">>, schoolId |-> "s1",
          isArray |-> TRUE]
  ELSE IF u = "odd"
    THEN [isNull |-> FALSE, roles |-> <<>>, schoolId |-> "", isArray |-> FALSE]
  ELSE [isNull |-> FALSE, roles |-> <<"teacher">>, schoolId |-> "", isArray |-> TRUE]

\* claims?.roles?.includes(role)
Includes(claims, role) ==
  ~claims.isNull /\ \E i \in 1..Len(claims.roles) : claims.roles[i] = role

\* as IsAdmin, but satisfied by any claims
IsAdminLax(claims) == ~claims.isNull

\* currentClaims?.roles?.includes('admin')
IsAdmin(claims) == Includes(claims, "admin")

NoSession == [active |-> FALSE, targetUid |-> "", asRole |-> "", startTime |-> 0]
Session(targetUid, asRole, startTime) ==
  [active |-> TRUE, targetUid |-> targetUid, asRole |-> asRole, startTime |-> startTime]

(* localStorage holds text.  A stored text is described by what JSON.parse  *)
(* makes of it: parses says whether it parses to an object, and the three   *)
(* fields are the object's ("" and 0 when missing).  empty marks the text   *)
(* of length zero, the one stored text that is falsy.                       *)
Absent ==
  [present |-> FALSE, empty |-> FALSE, parses |-> FALSE, targetUid |-> "", asRole |-> "",
   startTime |-> 0]
Malformed == [Absent EXCEPT !.present = TRUE]
EmptyText == [Absent EXCEPT !.present = TRUE, !.empty = TRUE]
\* as Stringify, but losing startTime
StringifyNoStart(sess) ==
  [present |-> TRUE, empty |-> FALSE, parses |-> TRUE, targetUid |-> sess.targetUid,
   asRole |-> sess.asRole, startTime |-> 0]

\* JSON.stringify(imitationState)
Stringify(sess) ==
  [present |-> TRUE, empty |-> FALSE, parses |-> TRUE, targetUid |-> sess.targetUid,
   asRole |-> sess.asRole, startTime |-> sess.startTime]
\* an object without asRole
MissingField == Stringify(Session("u1", "", 1))
\* what another page or an earlier version may have left under the key
InitStorage ==
  {Absent, Malformed, EmptyText, MissingField, Stringify(Session("u1", "teacher", 1))}

TargetArgs == {"u1", ""}
RoleArgs == {"teacher", ""}

\* Date.now()
DateNow == asteps + 1

NoImitationEntry ==
  [action |-> "", actorId |-> "", targetId |-> "", role |-> "", schoolId |-> "",
   startTime |-> 0, durationMs |-> 0]
NoArgs == [targetUid |-> "", asRole |-> ""]
\* at: the value of Date.now() when the operation was called; args: the
\* arguments of a startImitate call
IdleUi ==
  [pc |-> "idle", op |-> "none", res |-> "none", entry |-> NoImitationEntry, at |-> 0,
   args |-> NoArgs]
Called(op, res) == [IdleUi EXCEPT !.op = op, !.res = res, !.at = DateNow]

NoCtx == [threw |-> TRUE, actedBy |-> "", asRole |-> "", asUserId |-> ""]

\* as clearImitationState, but leaving the storage key alone
clearMemoryOnly == [mem |-> NoSession, store |-> storage]

\* auth.js clearImitationState: the memory and the storage it leaves
clearImitationState == [mem |-> NoSession, store |-> Absent]

\* as loadImitationState, but restoring whatever parses to an object
loadImitationStateUnchecked(mem, store) ==
  IF ~store.present \/ store.empty THEN [mem |-> mem, store |-> store, event |-> FALSE]
  ELSE IF store.parses
    THEN [mem |-> Session(store.targetUid, store.asRole, store.startTime),
          store |-> store, event |-> TRUE]
  ELSE [mem |-> NoSession, store |-> Absent, event |-> FALSE]

\* auth.js loadImitationState: memory, storage and whether 'imitation-active' is dispatched
loadImitationState(mem, store) ==
  IF ~store.present \/ store.empty THEN [mem |-> mem, store |-> store, event |-> FALSE]
  ELSE IF store.parses /\ store.targetUid # "" /\ store.asRole # "" /\ store.startTime # 0
    THEN [mem |-> Session(store.targetUid, store.asRole, store.startTime),
          store |-> store, event |-> TRUE]
  ELSE [mem |-> clearImitationState.mem, store |-> clearImitationState.store,
        event |-> FALSE]

\* as getAuditContext, but attributing the action to the imitated user
getAuditContextAsTarget ==
  IF currentUser = NoUser THEN NoCtx
  ELSE IF imitationState.active
    THEN [threw |-> FALSE, actedBy |-> imitationState.targetUid,
          asRole |-> imitationState.asRole, asUserId |-> imitationState.targetUid]
  ELSE [threw |-> FALSE, actedBy |-> currentUser,
        asRole |-> IF ~currentClaims.isNull /\ Len(currentClaims.roles) > 0
                     THEN currentClaims.roles[1] ELSE "unknown",
        asUserId |-> currentUser]

\* auth.js getAuditContext
getAuditContext ==
  IF currentUser = NoUser THEN NoCtx
  ELSE IF imitationState.active
    THEN [threw |-> FALSE, actedBy |-> currentUser, asRole |-> imitationState.asRole,
          asUserId |-> imitationState.targetUid]
  ELSE [threw |-> FALSE, actedBy |-> currentUser,
        asRole |-> IF ~currentClaims.isNull /\ Len(currentClaims.roles) > 0
                     THEN currentClaims.roles[1] ELSE "unknown",
        asUserId |-> currentUser]

\* currentClaims?.schoolId || DEFAULT_SCHOOL_ID
AuditSchool ==
  IF ~currentClaims.isNull /\ currentClaims.schoolId # "" THEN currentClaims.schoolId
  ELSE DEFAULT_SCHOOL_ID

CanAct(c) == ui[c].pc = "idle" /\ asteps < MaxAuthSteps

\* window.location: the page that called guardRoute
CurrentPath == "/page"
CurrentPage == [href |-> CurrentPath, return |-> FALSE]

\* _schoolCtx = null, and { schoolId, user, claims, staff }
NoSchoolCtx == [isNull |-> TRUE, schoolId |-> "", user |-> "", staff |-> FALSE]
SchoolCtx(schoolId, user, staff) ==
  [isNull |-> FALSE, schoolId |-> schoolId, user |-> user, staff |-> staff]

dataRest ==
  <<plan, day, school, auditErrors, proc, lastAudit, naudits, ncalls, retry, pureVars>>

(* onAuthStateChanged handler, up to `await user.getIdTokenResult()`; for   *)
(* user = null the whole handler                                            *)
authStateChanged(u) ==
  /\ asteps < MaxAuthSteps
  /\ asteps' = asteps + 1
  /\ currentUser' = u
  /\ IF u # NoUser
       THEN /\ pending' = pending \cup {u}
            /\ UNCHANGED <<currentClaims, imitationState, storage, authReady>>
       ELSE /\ currentClaims' = NoClaims
            /\ imitationState' = clearImitationState.mem
            /\ storage' = clearImitationState.store
            /\ authReady' = TRUE
            /\ UNCHANGED pending
  /\ UNCHANGED <<events, ui, lastCtx, auditLogs, dataRest, pageVars>>

\* the handler resumes: claims cached and the stored session restored, or the catch
tokenResult(u) ==
  /\ u \in pending
  /\ pending' = pending \ {u}
  /\ authReady' = TRUE
  /\ \/ LET l == loadImitationState(imitationState, storage)
        IN /\ currentClaims' = ClaimsOf(u)
           /\ imitationState' = l.mem
           /\ storage' = l.store
           /\ events' = IF l.event THEN Append(events, "imitation-active") ELSE events
     \/ /\ currentClaims' = NoClaims
        /\ UNCHANGED <<imitationState, storage, events>>
  /\ UNCHANGED <<currentUser, ui, lastCtx, asteps, auditLogs, dataRest, pageVars>>

\* auth.js startImitate, up to `await auditImitation(...)`
startImitate(c) ==
  /\ CanAct(c)
  /\ asteps' = asteps + 1
  /\ \E targetUid \in TargetArgs, asRole \in RoleArgs :
       LET args == [targetUid |-> targetUid, asRole |-> asRole] IN
       IF ~IsAdmin(currentClaims)
         THEN /\ ui' = [ui EXCEPT ![c] = [Called("startImitate", "PermissionDenied")
                                            EXCEPT !.args = args]]
              /\ UNCHANGED <<imitationState, storage, events>>
       ELSE IF targetUid = "" \/ asRole = ""
         THEN /\ ui' = [ui EXCEPT ![c] = [Called("startImitate", "InvalidArgument")
                                            EXCEPT !.args = args]]
              /\ UNCHANGED <<imitationState, storage, events>>
       ELSE
         LET sess == Session(targetUid, asRole, DateNow) IN
         /\ imitationState' = sess
         /\ storage' = Stringify(sess)
         /\ events' = Append(events, "imitation-active")
         /\ IF currentUser = NoUser
              \* currentUser.uid throws a TypeError, which the catch logs
              THEN ui' = [ui EXCEPT ![c] = [Called("startImitate", "ok")
                                             EXCEPT !.args = args]]
              ELSE ui' = [ui EXCEPT ![c] =
                     [pc |-> "start_audit", op |-> "startImitate", res |-> "none", at |-> DateNow,
                      args |-> args,
                      entry |-> [action |-> "imitation_started", actorId |-> currentUser,
                                 targetId |-> targetUid, role |-> asRole,
                                 schoolId |-> AuditSchool, startTime |-> DateNow,
                                 durationMs |-> 0]]]
  /\ UNCHANGED <<currentUser, currentClaims, authReady, pending, lastCtx, auditLogs,
                 dataRest, pageVars>>

\* the document startImitate and stopImitate hand to auditImitation
ImitationDoc(entry) ==
  ("action" :> SV(entry.action, Len(entry.action) + 2))
    @@ ("actorId" :> Id(entry.actorId)) @@ ("targetId" :> Id(entry.targetId))
    @@ ("role" :> Id(entry.role))
    @@ ("details" :>
          OBJ(("targetUid" :> Id(entry.targetId)) @@ ("asRole" :> Id(entry.role))
                @@ ("startTime" :> NV(entry.startTime))
                @@ (IF entry.action = "imitation_stopped"
                      THEN "durationMs" :> NV(entry.durationMs) ELSE EmptyObj)))

\* as auditImitation, but writing one document with a fixed id
auditImitationOverwrite(logs, entry, ok) ==
  IF ok THEN <<[ts |-> serverTimestamp, f |-> ImitationDoc(entry)]>> ELSE logs

\* auth.js auditImitation: one addDoc to audit_logs, its failure only logged
auditImitation(logs, entry, ok) ==
  IF ok THEN Append(logs, [ts |-> serverTimestamp, f |-> ImitationDoc(entry)]) ELSE logs

startAudit(c) ==
  /\ ui[c].pc = "start_audit"
  /\ \E ok \in BOOLEAN : auditLogs' = auditImitation(auditLogs, ui[c].entry, ok)
  /\ ui' = [ui EXCEPT ![c].pc = "idle", ![c].res = "ok"]
  /\ UNCHANGED <<currentUser, currentClaims, authReady, imitationState, storage,
                 pending, events, lastCtx, asteps, dataRest, pageVars>>

\* auth.js stopImitate, up to `await auditImitation(...)`; all of it when no
\* session is active
stopImitate(c) ==
  /\ CanAct(c)
  /\ asteps' = asteps + 1
  /\ IF imitationState.active /\ currentUser # NoUser
       THEN /\ ui' = [ui EXCEPT ![c] =
                 [pc |-> "stop_audit", op |-> "stopImitate", res |-> "none", at |-> DateNow,
                  args |-> NoArgs,
                  entry |-> [action |-> "imitation_stopped", actorId |-> currentUser,
                             targetId |-> imitationState.targetUid,
                             role |-> imitationState.asRole, schoolId |-> AuditSchool,
                             startTime |-> imitationState.startTime,
                             durationMs |-> DateNow - imitationState.startTime]]]
            /\ UNCHANGED <<imitationState, storage, events>>
       ELSE /\ imitationState' = clearImitationState.mem
            /\ storage' = clearImitationState.store
            /\ events' = IF imitationState.active
                           THEN Append(events, "imitation-stopped") ELSE events
            /\ ui' = [ui EXCEPT ![c] = Called("stopImitate", "ok")]
  /\ UNCHANGED <<currentUser, currentClaims, authReady, pending, lastCtx, auditLogs,
                 dataRest, pageVars>>

\* stopImitate after the await: clearImitationState() and the UI event
stopAudit(c) ==
  /\ ui[c].pc = "stop_audit"
  /\ \E ok \in BOOLEAN : auditLogs' = auditImitation(auditLogs, ui[c].entry, ok)
  /\ imitationState' = clearImitationState.mem
  /\ storage' = clearImitationState.store
  /\ events' = Append(events, "imitation-stopped")
  /\ ui' = [ui EXCEPT ![c].pc = "idle", ![c].res = "ok"]
  /\ UNCHANGED <<currentUser, currentClaims, authReady, pending, lastCtx, asteps,
                 dataRest, pageVars>>

\* a caller reads getAuditContext()
readAuditContext(c) ==
  /\ CanAct(c)
  /\ asteps' = asteps + 1
  /\ lastCtx' = getAuditContext
  /\ ui' = [ui EXCEPT ![c] = Called("getAuditContext",
                                     IF getAuditContext.threw THEN "InvalidArgument"
                                     ELSE "ok")]
  /\ UNCHANGED <<currentUser, currentClaims, authReady, imitationState, storage,
                 pending, events, auditLogs, dataRest, pageVars>>

(***************************************************************************)
(* auth.js guardRoute and requireAuth                                      *)
(***************************************************************************)
\* requiredRoles: an array of roles, or something that is no array
RequiredArgs ==
  { [isArray |-> TRUE, roles |-> {}], [isArray |-> TRUE, roles |-> {"admin"}],
    [isArray |-> TRUE, roles |-> {"teacher", "art"}], [isArray |-> FALSE, roles |-> {}] }
RedirectArgs == {"/login.html", CurrentPath}

\* as hasRequiredRole, but satisfied by every identity
hasRequiredRoleAny(requiredRoles, claims) == TRUE

\* requiredRoles.some(role => userRoles.includes(role)), userRoles = currentClaims?.roles || []
hasRequiredRole(requiredRoles, claims) ==
  \E role \in requiredRoles.roles : Includes(claims, role)

\* the catch of guardRoute: window.location.href = `${redirectUrl}${returnUrl}`
RedirectWithReturn(redirectUrl) ==
  [href |-> redirectUrl, return |-> CurrentPath # redirectUrl]

\* guardRoute up to `await Promise.race([authReadyPromise, timeoutPromise])`
guardRoute(c) ==
  /\ CanAct(c)
  /\ asteps' = asteps + 1
  /\ appReady' = FALSE
  /\ \E requiredRoles \in RequiredArgs, redirectUrl \in RedirectArgs :
       LET args == [requiredRoles |-> requiredRoles, redirectUrl |-> redirectUrl] IN
       IF ~requiredRoles.isArray
         THEN /\ location' = RedirectWithReturn(redirectUrl)
              /\ ui' = [ui EXCEPT ![c] = [Called("guardRoute", "redirected")
                                            EXCEPT !.args = args]]
         ELSE /\ location' = location
              /\ ui' = [ui EXCEPT ![c] = [Called("guardRoute", "none")
                                            EXCEPT !.pc = "guard_wait", !.args = args]]
  /\ UNCHANGED <<currentUser, currentClaims, authReady, imitationState, storage,
                 pending, events, lastCtx, schoolCtx, lastSchool, auditLogs, dataRest>>

\* authReadyPromise has resolved: the rest of requireAuth and of guardRoute
guardResume(c) ==
  /\ ui[c].pc = "guard_wait"
  /\ authReady
  /\ LET requiredRoles == ui[c].args.requiredRoles
         redirectUrl == ui[c].args.redirectUrl
     IN IF currentUser = NoUser
          THEN /\ location' = RedirectWithReturn(redirectUrl)
               /\ appReady' = appReady
               /\ ui' = [ui EXCEPT ![c].pc = "idle", ![c].res = "redirected"]
        ELSE IF requiredRoles.roles # {} /\ ~currentClaims.isNull /\ ~currentClaims.isArray
          THEN /\ location' = RedirectWithReturn(redirectUrl)
               /\ appReady' = appReady
               /\ ui' = [ui EXCEPT ![c].pc = "idle", ![c].res = "redirected"]
        ELSE IF requiredRoles.roles # {} /\ ~hasRequiredRole(requiredRoles, currentClaims)
          THEN /\ location' = [href |-> redirectUrl, return |-> FALSE]
               /\ appReady' = appReady
               /\ ui' = [ui EXCEPT ![c].pc = "idle", ![c].res = "redirected"]
        ELSE /\ location' = location
             /\ appReady' = TRUE
             /\ ui' = [ui EXCEPT ![c].pc = "idle", ![c].res = "ok"]
  /\ UNCHANGED <<currentUser, currentClaims, authReady, imitationState, storage,
                 pending, events, lastCtx, asteps, schoolCtx, lastSchool, auditLogs,
                 dataRest>>

\* the timer of requireAuth fires before authReadyPromise has resolved
guardTimeout(c) ==
  /\ ui[c].pc = "guard_wait"
  /\ ~authReady
  /\ location' = RedirectWithReturn(ui[c].args.redirectUrl)
  /\ ui' = [ui EXCEPT ![c].pc = "idle", ![c].res = "redirected"]
  /\ UNCHANGED <<currentUser, currentClaims, authReady, imitationState, storage,
                 pending, events, lastCtx, asteps, appReady, schoolCtx, lastSchool,
                 auditLogs, dataRest>>

(***************************************************************************)
(* auth.js getSchoolContext, clearSchoolContext and signOutUser            *)
(***************************************************************************)
\* as clearSchoolContext, but leaving the cache as it is
keepSchoolContext == schoolCtx

\* auth.js clearSchoolContext: the cache it leaves
clearSchoolContext == NoSchoolCtx

\* getSchoolContext up to `await getDoc(staffRef)`; all of it when the cache
\* answers or no user is authenticated
getSchoolContext(c) ==
  /\ CanAct(c)
  /\ asteps' = asteps + 1
  /\ \E forceRefresh \in BOOLEAN :
       IF ~schoolCtx.isNull /\ ~forceRefresh
         THEN /\ lastSchool' = schoolCtx
              /\ ui' = [ui EXCEPT ![c] = Called("getSchoolContext", "cached")]
       ELSE IF currentUser = NoUser
         THEN /\ lastSchool' = NoSchoolCtx
              /\ ui' = [ui EXCEPT ![c] = Called("getSchoolContext", "err")]
       ELSE /\ lastSchool' = lastSchool
            /\ ui' = [ui EXCEPT ![c] =
                  [Called("getSchoolContext", "none") EXCEPT
                     !.pc = "gsc_load",
                     !.args = [user |-> currentUser, forceRefresh |-> forceRefresh,
                               schoolId |-> IF currentClaims.isNull THEN ""
                                            ELSE currentClaims.schoolId]]]
  /\ UNCHANGED <<currentUser, currentClaims, authReady, imitationState, storage,
                 pending, events, lastCtx, appReady, location, schoolCtx, auditLogs,
                 dataRest>>

\* getDoc(staffRef) settles: the staff profile is there, is not, or the read fails
gscLoad(c) ==
  /\ ui[c].pc = "gsc_load"
  /\ \E snap \in {"exists", "missing", "failed"} :
       LET inClaims == ui[c].args.schoolId # ""
           ctx == SchoolCtx(IF inClaims THEN ui[c].args.schoolId ELSE DEFAULT_SCHOOL_ID,
                            ui[c].args.user, snap = "exists")
       IN IF snap = "failed" \/ (snap = "missing" /\ ~inClaims)
            THEN /\ UNCHANGED schoolCtx
                 /\ lastSchool' = NoSchoolCtx
                 /\ ui' = [ui EXCEPT ![c].pc = "idle", ![c].res = "err"]
            ELSE /\ schoolCtx' = ctx
                 /\ lastSchool' = ctx
                 /\ ui' = [ui EXCEPT ![c].pc = "idle", ![c].res = "ok"]
  /\ UNCHANGED <<currentUser, currentClaims, authReady, imitationState, storage,
                 pending, events, lastCtx, asteps, appReady, location, auditLogs,
                 dataRest>>

\* signOutUser up to the first await: stopImitate() as far as its audit
\* write, or all of it and clearSchoolContext() when no write is attempted
signOutUser(c) ==
  /\ CanAct(c)
  /\ asteps' = asteps + 1
  /\ IF imitationState.active /\ currentUser # NoUser
       THEN /\ ui' = [ui EXCEPT ![c] =
                 [pc |-> "so_try_audit", op |-> "signOutUser", res |-> "none",
                  at |-> DateNow, args |-> NoArgs,
                  entry |-> [action |-> "imitation_stopped", actorId |-> currentUser,
                             targetId |-> imitationState.targetUid,
                             role |-> imitationState.asRole, schoolId |-> AuditSchool,
                             startTime |-> imitationState.startTime,
                             durationMs |-> DateNow - imitationState.startTime]]]
            /\ UNCHANGED <<imitationState, storage, events, schoolCtx>>
       ELSE /\ imitationState' = clearImitationState.mem
            /\ storage' = clearImitationState.store
            /\ events' = IF imitationState.active
                           THEN Append(events, "imitation-stopped") ELSE events
            /\ schoolCtx' = clearSchoolContext
            /\ ui' = [ui EXCEPT ![c] = [Called("signOutUser", "none")
                                          EXCEPT !.pc = "so_signout"]]
  /\ UNCHANGED <<currentUser, currentClaims, authReady, pending, lastCtx, appReady,
                 location, lastSchool, auditLogs, dataRest>>

\* the audit write of a stopImitate() inside signOutUser settles: the rest
\* of stopImitate() and clearSchoolContext(); in the catch block the error
\* of signOut is then thrown again
soStopAudit(c) ==
  /\ ui[c].pc \in {"so_try_audit", "so_catch_audit"}
  /\ \E ok \in BOOLEAN : auditLogs' = auditImitation(auditLogs, ui[c].entry, ok)
  /\ imitationState' = clearImitationState.mem
  /\ storage' = clearImitationState.store
  /\ events' = Append(events, "imitation-stopped")
  /\ schoolCtx' = clearSchoolContext
  /\ ui' = IF ui[c].pc = "so_try_audit"
             THEN [ui EXCEPT ![c].pc = "so_signout"]
             ELSE [ui EXCEPT ![c].pc = "idle", ![c].res = "err"]
  /\ UNCHANGED <<currentUser, currentClaims, authReady, pending, lastCtx, asteps,
                 appReady, location, lastSchool, dataRest>>

\* `await signOut(auth)` settles; when it fails, the catch block
soSignOut(c) ==
  /\ ui[c].pc = "so_signout"
  /\ \/ /\ ui' = [ui EXCEPT ![c].pc = "idle", ![c].res = "ok"]
        /\ UNCHANGED <<imitationState, storage, events, schoolCtx>>
     \/ IF imitationState.active /\ currentUser # NoUser
          THEN /\ ui' = [ui EXCEPT ![c].pc = "so_catch_audit",
                           ![c].entry =
                             [action |-> "imitation_stopped", actorId |-> currentUser,
                              targetId |-> imitationState.targetUid,
                              role |-> imitationState.asRole, schoolId |-> AuditSchool,
                              startTime |-> imitationState.startTime,
                              durationMs |-> DateNow - imitationState.startTime]]
               /\ UNCHANGED <<imitationState, storage, events, schoolCtx>>
          ELSE /\ imitationState' = clearImitationState.mem
               /\ storage' = clearImitationState.store
               /\ events' = IF imitationState.active
                              THEN Append(events, "imitation-stopped") ELSE events
               /\ schoolCtx' = clearSchoolContext
               /\ ui' = [ui EXCEPT ![c].pc = "idle", ![c].res = "err"]
  /\ UNCHANGED <<currentUser, currentClaims, authReady, pending, lastCtx, asteps,
                 appReady, location, lastSchool, auditLogs, dataRest>>

(* The page is loaded again: the module's variables start over, the         *)
(* localStorage key and the audit collection stay.                          *)
reload ==
  /\ asteps < MaxAuthSteps
  /\ asteps' = asteps + 1
  /\ currentUser' = NoUser
  /\ currentClaims' = NoClaims
  /\ authReady' = FALSE
  /\ imitationState' = NoSession
  /\ pending' = {}
  /\ ui' = [c \in Procs |-> IdleUi]
  /\ appReady' = FALSE
  /\ location' = CurrentPage
  /\ schoolCtx' = NoSchoolCtx
  /\ UNCHANGED <<storage, events, lastCtx, lastSchool, auditLogs, dataRest>>

AuthInit(stores) ==
  /\ currentUser = NoUser
  /\ currentClaims = NoClaims
  /\ authReady = FALSE
  /\ imitationState = NoSession
  /\ storage \in stores
  /\ pending = {}
  /\ events = <<>>
  /\ ui = [c \in Procs |-> IdleUi]
  /\ lastCtx = NoCtx
  /\ asteps = 0
  /\ appReady = FALSE
  /\ location = CurrentPage
  /\ schoolCtx = NoSchoolCtx
  /\ lastSchool = NoSchoolCtx

vars == <<dataVars, authVars, retry, pureVars>>

\* the auth context: the provider's handler and one UI caller
AuthSpecInit == DataInit({PlanMissing}, {NoDay}) /\ AuthInit(InitStorage)
AuthNext ==
  \/ \E u \in Users \cup {NoUser} : authStateChanged(u)
  \/ \E u \in Users : tokenResult(u)
  \/ startImitate("a") \/ startAudit("a")
  \/ stopImitate("a") \/ stopAudit("a")
  \/ readAuditContext("a")
  \/ reload
AuthSpec == AuthSpecInit /\ [][AuthNext]_vars

\* the route guard of a page: the provider's handler and one caller
GuardInit == DataInit({PlanMissing}, {NoDay}) /\ AuthInit({Absent})
GuardNext ==
  \/ \E u \in Users \cup {"odd", NoUser} : authStateChanged(u)
  \/ \E u \in Users \cup {"odd"} : tokenResult(u)
  \/ guardRoute("a") \/ guardResume("a") \/ guardTimeout("a")
  \/ reload
GuardSpec == GuardInit /\ [][GuardNext]_vars

\* sign-out: the provider's handler and one caller that imitates, loads the
\* school context and signs out
SignOutInit == DataInit({PlanMissing}, {NoDay}) /\ AuthInit(InitStorage)
SignOutNext ==
  \/ \E u \in {"adm", NoUser} : authStateChanged(u)
  \/ tokenResult("adm")
  \/ startImitate("a") \/ startAudit("a")
  \/ getSchoolContext("a") \/ gscLoad("a")
  \/ signOutUser("a") \/ soStopAudit("a") \/ soSignOut("a")
SignOutSpec == SignOutInit /\ [][SignOutNext]_vars

\* the school context of two identities: the provider's handler, a caller
\* of getSchoolContext and a caller of signOutUser; nobody imitates, so the
\* stopImitate() inside signOutUser has nothing to audit
SchoolInit == DataInit({PlanMissing}, {NoDay}) /\ AuthInit({Absent})
SchoolNext ==
  \/ \E u \in Users \cup {NoUser} : authStateChanged(u)
  \/ \E u \in Users : tokenResult(u)
  \/ getSchoolContext("a") \/ gscLoad("a")
  \/ signOutUser("b") \/ soSignOut("b")
SchoolSpec == SchoolInit /\ [][SchoolNext]_vars

\* the writers, one caller, one call after the other
Init == DataInit({PlanAMPM}, InitDays) /\ AuthInit({Absent})
Next ==
  \/ saveMatrixCell("a", WriterEnv) \/ recalcRead("a", WriterEnv)
  \/ recalcWrite("a", WriterEnv) \/ smcAudit("a", WriterEnv)
  \/ saveComment("a", WriterEnv) \/ scAudit("a", WriterEnv)
  \/ logCustomIncident("a", WriterEnv) \/ lciWrite("a", WriterEnv) \/ lciAudit("a", WriterEnv)
  \/ setTheme("a", WriterEnv)
Spec == Init /\ [][Next]_vars

\* one caller that writes cells and loads the day
CellInit == DataInit(Plans, InitDays) /\ AuthInit({Absent})
CellNext ==
  \/ saveMatrixCell("a", SeqEnv) \/ recalcRead("a", SeqEnv)
  \/ recalcWrite("a", SeqEnv) \/ smcAudit("a", SeqEnv)
  \/ loadDay("a", SeqEnv)
CellSpec == CellInit /\ [][CellNext]_vars

\* one caller of audit()
AuditInit == DataInit({PlanMissing}, {NoDay}) /\ AuthInit({Absent})
AuditNext == auditCall("a", SeqEnv) \/ auditCall("b", SeqEnv)
AuditSpec == AuditInit /\ [][AuditNext]_vars

\* two callers whose saveMatrixCell calls on one Day overlap
CellRaceInit == DataInit({PlanAMPM, PlanPct}, InitDays) /\ AuthInit({Absent})
CellRaceNext ==
  \E p \in Procs :
    \/ saveMatrixCell(p, RaceEnv) \/ recalcRead(p, RaceEnv)
    \/ recalcWrite(p, RaceEnv) \/ smcAudit(p, RaceEnv)
CellRaceSpec == CellRaceInit /\ [][CellRaceNext]_vars

\* two callers whose logCustomIncident calls on one Day overlap
IncidentRaceInit == DataInit({PlanAMPM}, InitDays) /\ AuthInit({Absent})
IncidentRaceNext ==
  \E p \in Procs :
    logCustomIncident(p, RaceEnv) \/ lciWrite(p, RaceEnv) \/ lciAudit(p, RaceEnv)
IncidentRaceSpec == IncidentRaceInit /\ [][IncidentRaceNext]_vars

\* one caller that logs incidents, one call after the other
IncidentSeqInit == DataInit({PlanAMPM}, {NoDay, SeededDay, LoggedDay}) /\ AuthInit({Absent})
IncidentSeqNext ==
  \/ logCustomIncident("a", WriterEnv) \/ lciWrite("a", WriterEnv)
  \/ lciAudit("a", WriterEnv)
IncidentSeqSpec == IncidentSeqInit /\ [][IncidentSeqNext]_vars

\* the core operations that reach audit_logs: the writers, audit(), the
\* Recalculator and the imitation of a signed-in admin
CoreEnv ==
  [RaceEnv EXCEPT !.periods = {"P1"}, !.values = {Num(2)}, !.ctxs = {CtxImitating},
                  !.scripts = {<<"ok">>}, !.auditScripts = AuditScripts,
                  !.entries = {NoEntry,
                               Obj(("action" :> SV("export", 8)) @@ ("actedBy" :> Id("u1")))}]
CoreInit == DataInit({PlanAMPM}, {SeededDay}) /\ AuthInit({Absent})
CoreNext ==
  \/ /\ ncalls + asteps < MaxCoreOps
     /\ \/ saveMatrixCell("a", CoreEnv) \/ saveComment("a", CoreEnv)
        \/ logCustomIncident("a", CoreEnv) \/ auditCall("a", CoreEnv)
        \/ recalculateDayTotals("a", CoreEnv)
        \/ authStateChanged("adm") \/ startImitate("a") \/ stopImitate("a")
  \/ recalcRead("a", CoreEnv) \/ recalcWrite("a", CoreEnv) \/ smcAudit("a", CoreEnv)
  \/ scAudit("a", CoreEnv)
  \/ lciWrite("a", CoreEnv) \/ lciAudit("a", CoreEnv)
  \/ recalcStore("a", CoreEnv)
  \/ tokenResult("adm") \/ startAudit("a") \/ stopAudit("a")
CoreSpec == CoreInit /\ [][CoreNext]_vars

\* one invocation of retryWithBackoff
RetryInit == DataInit({PlanMissing}, {NoDay}) /\ AuthInit({Absent})
RetryNext == retryCall \/ retryAttempt \/ retryWait
RetrySpec == RetryInit /\ [][RetryNext]_vars
\* a pending timer fires and a pending invocation of fn settles
RetryFairSpec == RetrySpec /\ WF_vars(RetryNext)

\* one caller that writes cells and invokes the Recalculator
RecalcEnv == [RaceEnv EXCEPT !.values = {Num(2), Num(0)}]
RecalcInit ==
  DataInit({PlanAMPM, PlanPct, PlanOneAMPM, PlanOnePct}, InitDays) /\ AuthInit({Absent})
RecalcNext ==
  \/ saveMatrixCell("a", RecalcEnv) \/ recalcRead("a", RecalcEnv)
  \/ recalcWrite("a", RecalcEnv) \/ smcAudit("a", RecalcEnv)
  \/ recalculateDayTotals("a", RecalcEnv) \/ recalcStore("a", RecalcEnv)
RecalcSpec == RecalcInit /\ [][RecalcNext]_vars

\* loaders and writers called with arguments that pass validation, while
\* every store operation succeeds at once or after one transient failure
TransientEnv == [RaceEnv EXCEPT !.scripts = {<<"ok">>, <<"unavailable", "ok">>}]
TransientInit == DataInit({PlanAMPM}, InitDays) /\ AuthInit({Absent})
TransientNext ==
  \/ loadSpecialsDay("a", TransientEnv) \/ loadDay("a", TransientEnv)
  \/ logCustomIncident("a", TransientEnv) \/ lciWrite("a", TransientEnv)
  \/ lciAudit("a", TransientEnv)
  \/ saveComment("a", TransientEnv) \/ scAudit("a", TransientEnv)
  \/ setTheme("a", TransientEnv)
TransientSpec == TransientInit /\ [][TransientNext]_vars

\* saveMatrixCell called with numbers outside the range of a grade
RangeEnv == [RaceEnv EXCEPT !.values = {Num(5), Num(-1), Bool(TRUE)}]
RangeInit == DataInit({PlanAMPM, PlanPct}, InitDays) /\ AuthInit({Absent})
RangeNext ==
  \/ saveMatrixCell("a", RangeEnv) \/ recalcRead("a", RangeEnv)
  \/ recalcWrite("a", RangeEnv) \/ smcAudit("a", RangeEnv)
RangeSpec == RangeInit /\ [][RangeNext]_vars

\* the writers called with arguments that pass validation, while store
\* operations succeed, fail for good, or fail transiently at every attempt
FaultEnv ==
  [RaceEnv EXCEPT !.scripts = {<<"ok">>, <<"permission-denied">>,
                               <<"unavailable", "unavailable", "unavailable", "ok">>}]
FaultInit == DataInit({PlanAMPM, PlanMissing}, InitDays) /\ AuthInit({Absent})
FaultNext ==
  \/ saveMatrixCell("a", FaultEnv) \/ recalcRead("a", FaultEnv)
  \/ recalcWrite("a", FaultEnv) \/ smcAudit("a", FaultEnv)
  \/ saveComment("a", FaultEnv) \/ scAudit("a", FaultEnv)
  \/ logCustomIncident("a", FaultEnv) \/ lciWrite("a", FaultEnv) \/ lciAudit("a", FaultEnv)
FaultSpec == FaultInit /\ [][FaultNext]_vars

\* the Recalculator invoked on plans and matrices of every shape
TotalsEnv == [RaceEnv EXCEPT !.scripts = {<<"ok">>, <<"unavailable">>}]
TotalsInit ==
  \/ DataInit({PlanWeek}, WeekDays) /\ AuthInit({Absent})
  \/ DataInit({PlanMixed, [PlanMixed EXCEPT !.planType = "Percentage"]}, MixedDays)
       /\ AuthInit({Absent})
TotalsNext == recalculateDayTotals("a", TotalsEnv) \/ recalcStore("a", TotalsEnv)
TotalsSpec == TotalsInit /\ [][TotalsNext]_vars

\* sanitizeObject applied once and twice to one argument
SanitizeInit ==
  /\ StoreInit({PlanMissing}, {NoDay}) /\ AuthInit({Absent})
  /\ san \in {[IdleSan EXCEPT !.input = x] : x \in SanitizeInputs}
  /\ val = IdleVal
SanitizeNext == sanitizeApply \/ sanitizeAgain
SanitizeSpec == SanitizeInit /\ [][SanitizeNext]_vars

\* validateAuditEntry applied to one entry
ValidateInit ==
  /\ StoreInit({PlanMissing}, {NoDay}) /\ AuthInit({Absent})
  /\ san = IdleSan
  /\ val \in {[IdleVal EXCEPT !.entry = e] : e \in ValidateInputs}
ValidateNext == validateApply
ValidateSpec == ValidateInit /\ [][ValidateNext]_vars

(***************************************************************************)
(* Claims.                                                                 *)
(***************************************************************************)
Writers3 == {"saveMatrixCell", "saveComment", "logCustomIncident"}
Returned(p, op) == proc[p].pc = "idle" /\ proc[p].op = op /\ proc[p].res = "ok"

\* C1 (as claimed): a loadDay that follows a successful saveMatrixCell of the
\* same caller, with no other call in between, returns a matrix that holds
\* the written value at [periodId][goalId] and every other cell as it was
\* before the write.
C1_CellReadBack ==
  [][\A p \in Procs :
       (Returned(p, "saveMatrixCell") /\ ncalls' = ncalls + 1
          /\ proc'[p].op = "loadDay" /\ proc'[p].res = "ok")
       => /\ proc'[p].ret.matrix[<<proc[p].period, proc[p].goal>>] = proc[p].value
          /\ \A c \in Cells \ {<<proc[p].period, proc[p].goal>>} :
               proc'[p].ret.matrix[c] = proc[p].before[c]]_vars

C3_LostUpdate ==
  \A p \in Procs, q \in Procs :
    (p # q /\ Returned(p, "logCustomIncident") /\ Returned(q, "logCustomIncident")
       /\ proc[p].current = proc[q].current)
    => /\ Len(day.incidents) = Len(proc[p].current) + 1
       /\ day.incidents \in {Append(proc[p].current, proc[p].incident),
                             Append(proc[p].current, proc[q].incident)}

\* C3 witness: both calls returned and the first writer's incident is gone
C3_Witness ==
  /\ Returned("a", "logCustomIncident") /\ Returned("b", "logCustomIncident")
  /\ proc["a"].current = proc["b"].current
  /\ proc["a"].incident.id # proc["b"].incident.id
  /\ day.incidents = Append(proc["a"].current, proc["b"].incident)
  /\ \A i \in 1..Len(day.incidents) : day.incidents[i] # proc["a"].incident

\* C4 (as claimed): whenever a session is active and no auth-state handler
\* is still running, an identity is authenticated and it holds the admin
\* role.
C4_OnlyAdminImitates ==
  (imitationState.active /\ pending = {})
    => (currentUser # NoUser /\ Includes(ClaimsOf(currentUser), "admin"))

\* what getAuditContext is to return apart from asRole without a session
AuditContextCore(r) ==
  /\ (currentUser = NoUser) = r.threw
  /\ currentUser # NoUser =>
       /\ r.actedBy = currentUser
       /\ imitationState.active =>
            (r.asRole = imitationState.asRole /\ r.asUserId = imitationState.targetUid)
       /\ ~imitationState.active => r.asUserId = currentUser

\* C5 (as claimed): getAuditContext fails without an identity; otherwise
\* actedBy is the identity, asRole/asUserId are the session's when one is
\* active, and the identity's own uid and first role when none is.
C5_AuditContextOriginal ==
  /\ AuditContextCore(getAuditContext)
  /\ (currentUser # NoUser /\ ~imitationState.active) =>
       /\ ~currentClaims.isNull
       /\ Len(currentClaims.roles) > 0
       /\ getAuditContext.asRole = currentClaims.roles[1]

\* C5 (amended): as claimed, except that without a session asRole is the
\* first role of the cached claims, or "unknown" when no claims are cached
\* or they list no role.
C5_AuditContext ==
  /\ AuditContextCore(getAuditContext)
  /\ (currentUser # NoUser /\ ~imitationState.active) =>
       IF ~currentClaims.isNull /\ Len(currentClaims.roles) > 0
         THEN getAuditContext.asRole = currentClaims.roles[1]
         ELSE getAuditContext.asRole = "unknown"

\* C5 witness: a caller has read the context of an admin who is imitating
C5_Witness ==
  /\ ui["a"].op = "getAuditContext" /\ ui["a"].res = "ok"
  /\ imitationState.active
  /\ lastCtx = [threw |-> FALSE, actedBy |-> "adm", asRole |-> "teacher",
                asUserId |-> "u1"]
  /\ currentUser = "adm"

\* C6 (as claimed): no call of audit() ends in an error.
C6_AuditNeverRaises ==
  \A p \in Procs : proc[p].op = "audit" => proc[p].res # "err"

\* C7: an invocation of audit() that gets past its identifier check either
\* appends the sanitized entry with the server timestamp to audit_logs and
\* leaves _audit_errors alone, or (validation or that one write failed)
\* attempts one write of the original entry and the error message to
\* _audit_errors, whose failure changes nothing and is not raised.
C7_AuditFallback ==
  [][naudits' = naudits + 1 =>
       LET a == lastAudit'
           v == validateAuditEntry(a.entry)
       IN ~a.threw =>
            /\ proc'[a.by].res = "ok"
            /\ (v.ok /\ a.primary = "ok") =>
                 /\ auditLogs' = Append(auditLogs, [ts |-> serverTimestamp, f |-> v.f])
                 /\ auditErrors' = auditErrors
                 /\ a.primaryTries = 1 /\ a.fallbackTries = 0
            /\ (~v.ok \/ a.primary # "ok") =>
                 /\ auditLogs' = auditLogs
                 /\ a.fallbackTries = 1
                 /\ a.fallback \in {"ok", "fail"}
                 /\ a.fallback = "fail" => auditErrors' = auditErrors
                 /\ a.fallback = "ok" =>
                      /\ Len(auditErrors') = Len(auditErrors) + 1
                      /\ auditErrors'[Len(auditErrors')].originalEntry = a.entry
                      /\ auditErrors'[Len(auditErrors')].error # ""
                      /\ SubSeq(auditErrors', 1, Len(auditErrors)) = auditErrors]_vars

\* C7 witness: an entry that failed validation went to _audit_errors as it came
C7_Witness ==
  /\ ~lastAudit.threw /\ ~lastAudit.valid /\ lastAudit.fallback = "ok"
  /\ Len(auditErrors) > 0
  /\ auditErrors[Len(auditErrors)].originalEntry = lastAudit.entry
  /\ auditErrors[Len(auditErrors)].error = "Audit entry must have an action field"
  /\ auditLogs = <<>>

\* C8 (as claimed): a writer that has returned successfully was given an
\* audit context with actedBy and has attempted an audit write.
C8_WritersAudit ==
  \A p \in Procs :
    (proc[p].pc = "idle" /\ proc[p].res = "ok"
       /\ proc[p].op \in Writers3 \cup {"setTheme"})
    => (RequireCtx(proc[p].ctx) /\ proc[p].audited)

\* C9: a call of saveMatrixCell, saveComment or logCustomIncident with a
\* null ctx or a ctx without actedBy ends at once in an error, and the Day
\* document, audit_logs and _audit_errors are as they were.
C9_BadCtxFailsFast ==
  [][\A p \in Procs :
       (ncalls' = ncalls + 1 /\ proc[p].pc = "idle"
          /\ (\A q \in Procs \ {p} : proc'[q] = proc[q])
          /\ proc'[p].op \in Writers3
          /\ (proc'[p].ctx.isNull \/ proc'[p].ctx.actedBy = ""))
       => /\ proc'[p].pc = "idle" /\ proc'[p].res = "err"
          /\ day' = day /\ auditLogs' = auditLogs /\ auditErrors' = auditErrors
          /\ naudits' = naudits]_vars

\* C9 witness: a call without actedBy on an existing day has been refused
C9_Witness ==
  /\ proc["a"].op \in Writers3 /\ proc["a"].res = "err"
  /\ proc["a"].ctx = CtxNoActor
  /\ day.exists

Calls(c, op) ==
  asteps' = asteps + 1 /\ ui[c].pc = "idle" /\ ui'[c].op = op /\ ui'[c].at = asteps'

\* what a stopImitate without a session leaves alone, the storage key apart
StopLeavesAlone(c) ==
  /\ ui'[c].pc = "idle" /\ ui'[c].res = "ok"
  /\ auditLogs' = auditLogs /\ events' = events
  /\ imitationState' = imitationState
  /\ currentUser' = currentUser /\ currentClaims' = currentClaims
  /\ authReady' = authReady /\ pending' = pending

\* C11 (as claimed): a stopImitate called while no session is active returns
\* without an error, writes no audit entry, raises no UI event and leaves the
\* whole auth context, the storage key included, as it was.
C11_StopNoopOriginal ==
  [][\A c \in Procs :
       (Calls(c, "stopImitate") /\ ~imitationState.active)
       => (StopLeavesAlone(c) /\ storage' = storage)]_vars

\* C11 (amended): as claimed for the audit log, the UI events, the error and
\* the state in memory; the storage key is removed when one is present.
C11_StopNoop ==
  [][\A c \in Procs :
       (Calls(c, "stopImitate") /\ ~imitationState.active)
       => (StopLeavesAlone(c) /\ storage' = Absent)]_vars

\* C11 witness: stopImitate has just returned for a signed-in admin in a
\* page that never had a session
C11_Witness ==
  /\ ui["a"].op = "stopImitate" /\ ui["a"].res = "ok" /\ ui["a"].at = asteps
  /\ currentUser = "adm" /\ ~currentClaims.isNull
  /\ events = <<>> /\ auditLogs = <<>>
  /\ ~imitationState.active /\ ~storage.present

\* C12 (as claimed): a stopImitate called with a session active first
\* attempts the imitation_stopped audit write, which carries the duration,
\* with the session still in memory and in storage; when it returns the
\* session is in neither, whatever became of the audit write.
C12_StopAuditsThenClears ==
  [][\A c \in Procs :
       /\ (Calls(c, "stopImitate") /\ imitationState.active)
          => /\ ui'[c].pc = "stop_audit"
             /\ ui'[c].entry.action = "imitation_stopped"
             /\ ui'[c].entry.durationMs = DateNow - imitationState.startTime
             /\ imitationState' = imitationState /\ storage' = storage
       /\ (ui[c].pc = "stop_audit" /\ ui'[c].pc = "idle" /\ ui'[c].op = "stopImitate")
          => /\ ui'[c].res = "ok"
             /\ ~imitationState'.active /\ ~storage'.present]_vars

\* C13: a startImitate called with admin claims cached and non-empty
\* arguments records {targetUid, asRole, startTime = now} in memory and in
\* storage and raises 'imitation-active'; the audit write that follows, ok or
\* failed, ends the call without an error and leaves the session as it is.
C13_StartRecordsSession ==
  [][\A c \in Procs :
       /\ (Calls(c, "startImitate") /\ Includes(currentClaims, "admin")
             /\ ui'[c].args.targetUid # "" /\ ui'[c].args.asRole # "")
          => /\ imitationState' = [active |-> TRUE, targetUid |-> ui'[c].args.targetUid,
                                   asRole |-> ui'[c].args.asRole, startTime |-> DateNow]
             /\ storage' = [present |-> TRUE, empty |-> FALSE, parses |-> TRUE,
                            targetUid |-> ui'[c].args.targetUid,
                            asRole |-> ui'[c].args.asRole, startTime |-> DateNow]
             /\ events' = Append(events, "imitation-active")
             /\ ui'[c].res \in {"none", "ok"}
       /\ (ui[c].pc = "start_audit" /\ ui'[c].pc = "idle" /\ ui'[c].op = "startImitate")
          => /\ ui'[c].res = "ok"
             /\ imitationState' = imitationState /\ storage' = storage
             /\ events' = events]_vars

\* C13 witness: the call has returned, its audit write failed, the session is on
C13_Witness ==
  /\ ui["a"].op = "startImitate" /\ ui["a"].pc = "idle" /\ ui["a"].res = "ok"
  /\ currentUser = "adm"
  /\ auditLogs = <<>>
  /\ imitationState.active /\ imitationState.startTime = ui["a"].at
  /\ storage = Stringify(imitationState)

\* parsed && typeof parsed === 'object' && parsed.targetUid && parsed.asRole && parsed.startTime
HasSessionFields(store) ==
  store.parses /\ store.targetUid # "" /\ store.asRole # "" /\ store.startTime # 0

\* the step in which the sign-in handler has got the claims
SignedIn == pending' # pending /\ ~currentClaims'.isNull

\* C14 (as claimed): at sign-in a stored value is restored only if it parses
\* to an object with targetUid, asRole and startTime; every other stored
\* value leaves the session in memory null and is removed from storage.
C14_RestoreOriginal ==
  [][SignedIn =>
       /\ (imitationState' # imitationState /\ imitationState'.active)
            => HasSessionFields(storage)
       /\ (storage.present /\ HasSessionFields(storage))
            => /\ imitationState' = Session(storage.targetUid, storage.asRole,
                                            storage.startTime)
               /\ storage' = storage
       /\ (storage.present /\ ~HasSessionFields(storage))
            => (imitationState' = NoSession /\ storage' = Absent)]_vars

\* C14 (amended): as claimed for every stored text that is not empty; an
\* empty text, like an absent key, leaves memory and storage as they are.
C14_Restore ==
  [][SignedIn =>
       /\ (imitationState' # imitationState /\ imitationState'.active)
            => HasSessionFields(storage)
       /\ (storage.present /\ HasSessionFields(storage))
            => /\ imitationState' = Session(storage.targetUid, storage.asRole,
                                            storage.startTime)
               /\ storage' = storage
       /\ (storage.present /\ ~storage.empty /\ ~HasSessionFields(storage))
            => (imitationState' = NoSession /\ storage' = Absent)
       /\ (~storage.present \/ storage.empty)
            => (imitationState' = imitationState /\ storage' = storage)]_vars

\* C14 witness: a session is active in a page where startImitate was never
\* called: the sign-in handler restored it
C14_Witness ==
  /\ imitationState.active /\ events = <<"imitation-active">>
  /\ ui["a"].op = "none" /\ asteps = 1
  /\ currentUser = "u1" /\ pending = {}
  /\ storage = Stringify(imitationState)

\* the operation fails with a retryable error at every invocation
AlwaysRetryable(script) == \A i \in DOMAIN script : script[i] = "unavailable"

\* C15: an invocation (maxAttempts at least 3) whose operation fails twice
\* with a retryable error and then succeeds returns the success value after
\* exactly 3 invocations of the operation.
C15_ThirdAttemptSucceeds ==
  (/\ retry.pc = "done" /\ retry.maxAttempts >= 3
   /\ retry.script[1] = "unavailable" /\ retry.script[2] = "unavailable"
   /\ retry.script[3] = "ok")
    => (retry.result = "ok" /\ retry.calls = 3)

\* C15 witness: the default arguments, two failures, then success
C15_Witness ==
  /\ retry.pc = "done" /\ retry.maxAttempts = MAX_RETRY_ATTEMPTS
  /\ retry.delay = RETRY_DELAY
  /\ SubSeq(retry.script, 1, 3) = <<"unavailable", "unavailable", "ok">>
  /\ retry.result = "ok" /\ retry.calls = 3
  /\ retry.delays = <<1000, 2000>>

\* C16: an invocation of the operation that fails with permission-denied or
\* not-found, at whichever attempt, ends retryWithBackoff at once with that
\* error: no further invocation and no further delay.
C16_NonRetryableRaised ==
  [][(retry.pc = "call" /\ retry'.calls = retry.calls + 1
        /\ OutcomeAt(retry.script, retry.attempt) \in {"permission-denied", "not-found"})
     => /\ retry'.pc = "done"
        /\ retry'.result = OutcomeAt(retry.script, retry.attempt)
        /\ retry'.calls = retry.attempt
        /\ retry'.delays = retry.delays]_vars

\* C16 witness: not-found at the second of three attempts
C16_Witness ==
  /\ retry.pc = "done" /\ retry.result = "not-found"
  /\ retry.maxAttempts = 3 /\ retry.calls = 2
  /\ retry.delays = <<retry.delay>>

RetryAgrees ==
  retry.pc = "done" =>
    LET r == retryFrom(retry.script, 1, retry.maxAttempts, retry.delay, <<>>)
    IN r = [result |-> retry.result, calls |-> retry.calls, delays |-> retry.delays]

\* C18 (as claimed): when saveMatrixCell has written (P1, G1, 2) to a day
\* with no other cell, of a plan with the one morning period P1 and the one
\* stepper goal G1, and has recalculated, the stored totals have pct = 100,
\* with amPct = 100 under an AM/PM plan type and no AM/PM part otherwise.
C18_ScenarioTotals ==
  \A p \in Procs :
    (/\ Returned(p, "saveMatrixCell") /\ proc[p].recalc = "wrote"
     /\ plan \in {PlanOneAMPM, PlanOnePct}
     /\ proc[p].period = "P1" /\ proc[p].goal = "G1" /\ proc[p].value = Num(2)
     /\ proc[p].before = EmptyMatrix)
    => /\ day.totals.present /\ day.totals.pct = 100
       /\ IncludesAMPM(plan.planType) => (day.totals.split /\ day.totals.amPct = 100)
       /\ ~IncludesAMPM(plan.planType) => ~day.totals.split

\* the stored cells that count for the accumulator pair keep
Graded(pl, matrix, keep) ==
  {c \in DOMAIN matrix :
     /\ Defined(matrix[c])
     /\ \E i \in 1..Len(pl.schedule), j \in 1..Len(pl.goals) :
          /\ pl.schedule[i].id = c[1] /\ pl.goals[j].id = c[2]
          /\ pl.goals[j].kind \in {"stepper", "checkbox"}
          /\ Routed(pl.schedule[i], keep)}

\* C19: whenever a recalculation has stored totals for a matrix without a
\* graded cell, the stored pct is 0; under an AM/PM plan type the stored
\* amPct (pmPct) is 0 when no morning (afternoon) cell is graded.
C19_ZeroGraded ==
  \A p \in Procs :
    (proc[p].pc = "idle" /\ proc[p].res = "ok" /\ proc[p].recalc = "wrote")
    => /\ Graded(plan, day.matrix, "total") = {} => day.totals.pct = 0
       /\ day.totals.split =>
            /\ Graded(plan, day.matrix, "am") = {} => day.totals.amPct = 0
            /\ Graded(plan, day.matrix, "pm") = {} => day.totals.pmPct = 0

\* C19 witness: totals stored for a matrix whose one cell belongs to a
\* period that is not in the plan
C19_Witness ==
  /\ proc["a"].pc = "idle" /\ proc["a"].recalc = "wrote"
  /\ plan = PlanOneAMPM
  /\ Defined(day.matrix[<<"P2", "G1">>])
  /\ day.totals = [present |-> TRUE, pct |-> 0, split |-> TRUE, amPct |-> 0, pmPct |-> 0]

\* C20: when a recalculation that stored its totals is followed, with no
\* write in between, by another one that stored its totals, the Day
\* document is what the first one left: the same totals and nothing else
\* changed.
C20_RecalcIdempotent ==
  \A p \in Procs :
    (/\ proc[p].pc = "idle" /\ proc[p].op = "recalculateDayTotals"
     /\ proc[p].recalc = "wrote" /\ proc[p].prev.wrote)
    => day = proc[p].prev.day

\* C20 witness: two recalculations in a row of a seeded day, the first of
\* which replaced totals that were not derived from the matrix
C20_Witness ==
  /\ proc["a"].pc = "idle" /\ proc["a"].op = "recalculateDayTotals"
  /\ proc["a"].recalc = "wrote" /\ proc["a"].prev.wrote
  /\ ncalls = 2
  /\ day.matrix = SeededDay.matrix /\ day.totals # SeededDay.totals
  /\ day.totals = DayTotals(plan, day.matrix)

\* caller p's latest two calls were logCustomIncident calls that returned
TwoLogged(p) == Returned(p, "logCustomIncident") /\ proc[p].prev.logged

LacksAction(e) ==
  ~e.isObj \/ "action" \notin DOMAIN e.f \/ e.f["action"].kind # "string"
    \/ e.f["action"].size = 2

\* the entry has neither actorId nor actedBy
LacksActor(e) == ~e.isObj \/ ({"actorId", "actedBy"} \cap DOMAIN e.f = {})

\* C22: validateAuditEntry fails for every entry without an action that is
\* a non-empty string and for every entry with neither actorId nor actedBy,
\* and produces no sanitized entry then.
C22_RequiredFields ==
  (val.pc = "done" /\ (LacksAction(val.entry) \/ LacksActor(val.entry)))
    => (~val.res.ok /\ val.res.f = EmptyObj)

\* C22 witness: an entry with an action and details but no actor has been refused
C22_Witness ==
  /\ val.pc = "done" /\ ~LacksAction(val.entry) /\ LacksActor(val.entry)
  /\ Has(val.entry.f, "details")
  /\ val.res = Rejected("Audit entry must have actorId or actedBy field")

\* C23: the object validateAuditEntry returns has exactly the keys of the
\* entry that are on the allow-list: action, actorId, actedBy, targetId,
\* target, details, role, asRole, duration, error.
C23_AllowList ==
  (val.pc = "done" /\ val.res.ok)
    => DOMAIN val.res.f =
         DOMAIN val.entry.f \cap {"action", "actorId", "actedBy", "targetId", "target",
                                  "details", "role", "asRole", "duration", "error"}

\* C23 witness: an entry with asUserId, target and details was accepted, and
\* what came back has target and details but no asUserId
C23_Witness ==
  /\ val.pc = "done" /\ val.res.ok
  /\ {"asUserId", "target", "details", "actedBy"} \subseteq DOMAIN val.entry.f
  /\ DOMAIN val.res.f = {"action", "actedBy", "target", "details"}
  /\ val.res.f["target"] = val.entry.f["target"]

\* C24 (as claimed): details that is an object of more than 5000 serialized
\* bytes comes back as the marker {truncated: true, size, summary}; details
\* of 5000 bytes or less comes back sanitized and otherwise unchanged; no
\* details object that comes back exceeds 5000 bytes.
C24_DetailsTruncated ==
  (val.pc = "done" /\ val.res.ok /\ Has(val.entry.f, "details")
     /\ val.entry.f["details"].kind = "object")
    => LET d == val.entry.f["details"]
           out == val.res.f["details"]
       IN /\ d.bytes > 5000 =>
               /\ out.kind = "object"
               /\ DOMAIN out.m = {"truncated", "size", "summary"}
               /\ out.m["truncated"] = BV(TRUE)
          /\ d.bytes <= 5000 => out = sanitizeObject(d)
          /\ out.bytes <= 5000

\* the entry passes the checks of the required fields
HasRequired(e) ==
  /\ e.isObj /\ ~LacksAction(e)
  /\ \E k \in {"actorId", "actedBy"} : k \in DOMAIN e.f /\ e.f[k].size > 2

\* C25 (as claimed): an entry whose allow-listed form exceeds 10000
\* serialized bytes is refused, not truncated, so that every entry
\* validateAuditEntry lets through to audit_logs is at most 10000 bytes.
C25_EntryBounded ==
  val.pc = "done" =>
    /\ val.res.ok => JsonBytes(val.res.f) <= 10000
    /\ (HasRequired(val.entry) /\ "details" \notin DOMAIN val.entry.f
          /\ JsonBytes([k \in DOMAIN val.entry.f \ {"asUserId"} |-> val.entry.f[k]]) > 10000)
       => (~val.res.ok /\ val.res.f = EmptyObj)

\* out is in with the keys __proto__, constructor and prototype left out at
\* every level, and nothing else changed
RECURSIVE Preserved(_, _)
Preserved(in, out) ==
  IF in.kind \notin {"object", "array"} THEN out = in
  ELSE /\ out.kind = in.kind
       /\ DOMAIN out.m = DOMAIN in.m \ {"__proto__", "constructor", "prototype"}
       /\ \A k \in DOMAIN out.m : Preserved(in.m[k], out.m[k])

\* C26 (as claimed): sanitizeObject returns its argument without the keys
\* __proto__, constructor and prototype at every level, every other own key
\* and value as it was; {"__proto__": {polluted: true}, "a": 1} gives
\* {"a": 1}; applying it twice gives what applying it once gives.
C26_SanitizeCopies ==
  /\ san.pc # "new" =>
       /\ san.once # Thrown
       /\ Preserved(san.input, san.once)
       /\ san.input \in {PollutedParsed, PollutedLiteral} => san.once = OBJ("a" :> NV(1))
  /\ san.pc = "twice" => san.twice = san.once

\* C27: in every step of the core operations audit_logs keeps every entry
\* it has, unchanged and in place; new entries come after them.
C27_AppendOnly ==
  [][/\ Len(auditLogs') >= Len(auditLogs)
     /\ SubSeq(auditLogs', 1, Len(auditLogs)) = auditLogs]_vars

\* C27 witness: the log holds the entry of an imitation, then the entry of
\* a writer, then the entry that ends the imitation
C27_Witness ==
  /\ Len(auditLogs) = 3
  /\ auditLogs[1].f["action"].tok = "imitation_started"
  /\ auditLogs[2].f["action"].tok \in {"matrix_cell_update", "comment_save", "incident_log"}
  /\ auditLogs[3].f["action"].tok = "imitation_stopped"
  /\ ~imitationState.active

\* C30 (as claimed): the entry a writer's audit call has put in audit_logs
\* carries actedBy, asRole and asUserId of the ctx the writer was given.
C30_ImitationRecorded ==
  \A p \in Procs :
    (/\ Returned(p, proc[p].op) /\ proc[p].op \in Writers3 /\ proc[p].audited
     /\ lastAudit.by = p /\ lastAudit.primary = "ok"
     /\ proc[p].ctx.asUserId # proc[p].ctx.actedBy)
    => LET e == auditLogs[Len(auditLogs)].f
           ctx == proc[p].ctx
       IN /\ Has(e, "actedBy") /\ e["actedBy"] = Id(ctx.actedBy)
          /\ Has(e, "asRole") /\ e["asRole"] = Id(ctx.asRole)
          /\ Has(e, "asUserId") /\ e["asUserId"] = Id(ctx.asUserId)

\* a step that ends caller c's guardRoute
GuardEnds(c) ==
  ui'[c].op = "guardRoute" /\ ui'[c].pc = "idle" /\ ui'[c] # ui[c]

\* what has to hold for the marker to be set, as the step that ends the
\* guardRoute finds it
GuardPasses(c) ==
  LET requiredRoles == ui'[c].args.requiredRoles
  IN /\ requiredRoles.isArray
     /\ authReady /\ currentUser # NoUser
     /\ \/ requiredRoles.roles = {}
        \/ /\ ~currentClaims.isNull /\ currentClaims.isArray
           /\ \E i \in 1..Len(currentClaims.roles) :
                currentClaims.roles[i] \in requiredRoles.roles

C29_SignOutClears ==
  /\ [](\A c \in Procs :
         (ui[c].op = "signOutUser" /\ ui[c].pc = "idle")
         => (~imitationState.active /\ ~storage.present /\ schoolCtx.isNull))
  /\ [][\A c \in Procs :
          (Calls(c, "getSchoolContext") /\ ui[c].op = "signOutUser")
          => ui'[c].res # "cached"]_vars

\* C29 witness: the provider's sign-out failed for an admin who was
\* imitating and had a school context cached
C29_Witness ==
  /\ ui["a"].op = "signOutUser" /\ ui["a"].pc = "idle" /\ ui["a"].res = "err"
  /\ currentUser = "adm"
  /\ ~lastSchool.isNull /\ lastSchool.user = "adm"
  /\ Len(events) >= 2 /\ events[Len(events)] = "imitation-stopped"
  /\ ~imitationState.active /\ ~storage.present /\ schoolCtx.isNull

\* what the pairs (period, goal) of the plan whose cell is graded add to
\* points (field "points") and to possible (field "possible"), for the
\* accumulators keep
RECURSIVE Added(_, _, _, _, _)
Added(pl, matrix, keep, field, pairs) ==
  IF pairs = {} THEN 0
  ELSE LET c == CHOOSE x \in pairs : TRUE
           period == pl.schedule[c[1]]
           goal == pl.goals[c[2]]
           value == CellOf(matrix, period.id, goal.id)
           counts == value.kind \notin {"undefined", "null"} /\ Routed(period, keep)
           add == IF ~counts THEN 0
                  ELSE IF goal.kind = "stepper"
                    THEN (IF field = "points" THEN value.v ELSE 2)
                  ELSE IF goal.kind = "checkbox"
                    THEN (IF field = "points" THEN (IF value.v # 0 THEN 1 ELSE 0) ELSE 1)
                  ELSE 0
       IN add + Added(pl, matrix, keep, field, pairs \ {c})

\* round(100 * points / possible) over the graded pairs, 0 when none is graded
Rounded(pl, matrix, keep) ==
  LET pairs == (1..Len(pl.schedule)) \X (1..Len(pl.goals))
      points == Added(pl, matrix, keep, "points", pairs)
      possible == Added(pl, matrix, keep, "possible", pairs)
  IN IF possible = 0 THEN 0 ELSE (200 * points + possible) \div (2 * possible)

\* C31 (as claimed): the pct the Recalculator stores is round(100 * points /
\* possible), points and possible summed over the (period, goal) pairs of
\* the plan whose cell is neither undefined nor null: a stepper adds its
\* value and 2, a checkbox adds 1 if truthy and 1; amPct and pmPct are the
\* same over the periods with am true and over the others.
C31_PctFormula ==
  \A p \in Procs :
    (Returned(p, "recalculateDayTotals") /\ proc[p].recalc = "wrote")
    => /\ day.totals.pct = Rounded(plan, day.matrix, "total")
       /\ day.totals.split =>
            /\ day.totals.amPct = Rounded(plan, day.matrix, "am")
            /\ day.totals.pmPct = Rounded(plan, day.matrix, "pm")

\* C32: once the cell write of a saveMatrixCell has succeeded, every step of
\* its recalculation leads on to the audit write, whatever is missing or
\* fails, and leaves the Day document as it is unless it stores totals; the
\* audit step attempts the write to audit_logs and the call returns
\* successfully, the cell still stored.
C32_RecalcBestEffort ==
  [][\A p \in Procs :
       /\ (proc[p].pc \in {"smc_recalc", "smc_totals"} /\ proc'[p] # proc[p]) =>
            /\ proc'[p].pc \in {"smc_totals", "smc_audit"}
            /\ proc'[p].mutated
            /\ proc'[p].recalc # "wrote" => day' = day
            /\ proc'[p].pc = "smc_audit" => proc'[p].recalc \in {"wrote", "failed", "skipped"}
       /\ (proc[p].pc = "smc_audit" /\ proc'[p] # proc[p]) =>
            /\ proc'[p].pc = "idle" /\ proc'[p].res = "ok"
            /\ naudits' = naudits + 1
            /\ lastAudit'.by = p /\ lastAudit'.primaryTries = 1
            /\ day' = day
            /\ day.dotted[<<proc[p].period, proc[p].goal>>] = proc[p].value]_vars

\* C32 witness: a saveMatrixCell on a seeded day returned successfully after
\* its recalculation failed: the cell is stored, the seeded totals are as
\* they were, and the audit entry is in audit_logs
C32_Witness ==
  /\ Returned("a", "saveMatrixCell") /\ proc["a"].recalc = "failed"
  /\ plan = PlanAMPM
  /\ day.dotted[<<"P1", "G1">>] = Num(2)
  /\ day.totals = SeededDay.totals
  /\ lastAudit.by = "a" /\ Len(auditLogs) = 1

\* C33: a step of the Recalculator changes nothing of the Day document but
\* totals, and changes totals only when it stores them; the totals it stores
\* under a plan type without AM/PM tracking have no amPct and no pmPct,
\* whatever was stored before.
C33_TotalsOnly ==
  [][\A p \in Procs :
       ((\/ proc[p].pc \in {"smc_recalc", "smc_totals", "rc_totals"}
         \/ proc[p].pc = "idle" /\ proc'[p].op = "recalculateDayTotals")
        /\ proc'[p] # proc[p]) =>
         /\ day' = [day EXCEPT !.totals = day'.totals]
         /\ proc'[p].recalc # "wrote" => day' = day
         /\ proc'[p].recalc = "wrote" =>
              /\ day'.totals.present
              /\ ~IncludesAMPM(plan.planType) =>
                   day'.totals = [present |-> TRUE, pct |-> day'.totals.pct,
                                  split |-> FALSE, amPct |-> 0, pmPct |-> 0]]_vars

\* C33 witness: under a plan without AM/PM tracking the Recalculator has
\* replaced seeded totals that had amPct and pmPct; the rest of the seeded
\* day is as it was
C33_Witness ==
  /\ Returned("a", "recalculateDayTotals") /\ proc["a"].recalc = "wrote"
  /\ plan = PlanPct
  /\ day = [SeededDay EXCEPT !.totals = [present |-> TRUE, pct |-> 100, split |-> FALSE,
                                         amPct |-> 0, pmPct |-> 0]]

\* C34: within a saveMatrixCell call the recalculation begins only when the
\* cell write has succeeded and attempts no audit write; the audit step
\* comes only when the recalculation has ended (totals stored, skipped or
\* failed), and the Day document then holds a value in the cell.
C34_Sequenced ==
  [][\A p \in Procs :
       /\ (proc'[p].pc = "smc_recalc" /\ proc[p].pc # "smc_recalc") =>
            /\ proc'[p].mutated
            /\ day'.dotted[<<proc'[p].period, proc'[p].goal>>] = proc'[p].value
       /\ (proc[p].pc \in {"smc_recalc", "smc_totals"} /\ proc'[p] # proc[p]) =>
            /\ proc[p].mutated
            /\ naudits' = naudits /\ auditLogs' = auditLogs /\ auditErrors' = auditErrors
       /\ (naudits' # naudits /\ proc'[p] # proc[p] /\ proc'[p].op = "saveMatrixCell") =>
            /\ proc[p].pc = "smc_audit" /\ proc[p].mutated
            /\ proc[p].recalc \in {"wrote", "failed", "skipped"}
            /\ day.exists /\ Defined(day.dotted[<<proc[p].period, proc[p].goal>>])]_vars

\* C34 witness: two overlapping saveMatrixCell calls have both returned with
\* totals stored and an audit entry each
C34_Witness ==
  /\ \A p \in Procs : Returned(p, "saveMatrixCell") /\ proc[p].recalc = "wrote"
                      /\ proc[p].audited
  /\ proc["b"].overlapped
  /\ Len(auditLogs) = 2

\* C35 (as claimed): with arguments that pass validation and store
\* operations that fail at most once, transiently, every loader and writer
\* call ends as it ends without a failure: it returns, and loadSpecialsDay
\* returns every student whose plan has the day code.
C35_TransientMasked ==
  \A p \in Procs :
    (proc[p].pc = "idle" /\ proc[p].op # "none")
    => /\ proc[p].res = "ok"
       /\ (proc[p].op = "loadSpecialsDay" /\ HasDayCode(plan, proc[p].role))
          => proc[p].current = <<"st1">>

\* C36 (as claimed): whenever the latest run of the auth-state handler was
\* for a null identity and has finished, no session is in memory or in
\* storage and the cached claims are null.
C36_SignedOutClean ==
  (currentUser = NoUser /\ authReady)
    => (~imitationState.active /\ ~storage.present /\ currentClaims.isNull)

\* C38 (as claimed): a step that replaces or clears the active session, in
\* memory and in storage, is the end of an audit attempt with the action
\* imitation_stopped for the target of that session.
C38_StopAudited ==
  [][(imitationState.active /\ imitationState' # imitationState /\ storage' # storage)
       => \E c \in Procs :
            /\ ui[c].pc \in {"stop_audit", "so_try_audit", "so_catch_audit"}
            /\ ui'[c].pc # ui[c].pc
            /\ ui[c].entry.action = "imitation_stopped"
            /\ ui[c].entry.targetId = imitationState.targetUid]_vars

\* C39 (as claimed): what a getSchoolContext without forceRefresh returns,
\* from the cache or after loading the staff profile, has as its user the
\* identity authenticated at that moment.
C39_OwnSchoolContext ==
  [][\A c \in Procs :
       (/\ ui'[c].op = "getSchoolContext" /\ ui'[c].pc = "idle" /\ ui'[c] # ui[c]
        /\ \/ ui'[c].res = "cached"
           \/ ui'[c].res = "ok" /\ ~ui[c].args.forceRefresh)
       => lastSchool'.user = currentUser]_vars

MutationFails(p) ==
  \/ /\ proc[p].pc = "idle" /\ ncalls' = ncalls + 1
     /\ proc'[p].op \in {"saveMatrixCell", "saveComment"}
     /\ ~proc'[p].mutated
  \/ /\ proc[p].pc = "lci_write" /\ proc'[p] # proc[p]
     /\ ~proc'[p].mutated

\* C40: the step in which the store mutation of saveMatrixCell, saveComment
\* or logCustomIncident fails ends the call with an error, with no
\* recalculation begun, the Day document as it was and nothing written to
\* audit_logs or _audit_errors; a call that has ended with an error has made
\* no audit call.
C40_FailedMutation ==
  /\ [][\A p \in Procs :
          MutationFails(p) =>
            /\ proc'[p].pc = "idle" /\ proc'[p].res = "err"
            /\ proc'[p].recalc = "none" /\ ~proc'[p].audited
            /\ day' = day
            /\ naudits' = naudits /\ lastAudit' = lastAudit
            /\ auditLogs' = auditLogs /\ auditErrors' = auditErrors]_vars
  /\ [](\A p \in Procs :
          (proc[p].pc = "idle" /\ proc[p].res = "err")
          => (~proc[p].audited /\ proc[p].recalc = "none"))

\* C40 witness: a saveComment that was audited, then a logCustomIncident
\* whose setDoc failed: one audit call, one audit entry, no incident stored
C40_Witness ==
  /\ proc["a"].pc = "idle" /\ proc["a"].op = "logCustomIncident" /\ proc["a"].res = "err"
  /\ ncalls = 2 /\ naudits = 1 /\ Len(auditLogs) = 1 /\ auditErrors = <<>>
  /\ auditLogs[1].f["action"].tok = "comment_save"
  /\ day.incidents = <<>>

====
